---- MODULE Spec2Model ----
(***************************************************************************)
(* A model of the Xenon backend layer: the Vulkan command submitter, the   *)
(* DirectX 12 buffer, the default pipeline cache handler, the descriptor   *)
(* binding merge and the Vulkan rasterizing pipeline's variant map.        *)
(*                                                                         *)
(* Every component has its own variables, its own initial predicate and    *)
(* its own specification; a component that a specification does not drive  *)
(* stays in its idle state.                                                *)
(***************************************************************************)
EXTENDS Integers, Sequences, FiniteSets, TLC

VARIABLES
    \* ---- VulkanCommandSubmitter (src/unnamed/part_010) ----
    subPc,            \* position of the caller inside submit(): "idle" | "queue"
    submitInfos,      \* the local std::vector<VkSubmitInfo> of the running submit()
    m_bIsWaiting,     \* the submitter's outstanding flag
    m_WaitFence,      \* state of the host fence: "unsignaled" | "pending" | "signaled",
                      \* and once destroyed: "destroyed" | "destroyedPending"
    subCrashed,       \* the process died inside submit() (null swapchain dereference)
    lastCall,         \* history: the last completed call and what it did to the fence
    queueLog,         \* history: what the last vkQueueSubmit received
    waitedSinceSubmit,\* history: wait() returned and submit() was not called since
    disciplined,      \* history: every submit() so far was preceded by a wait() (or was the first)
    \* ---- DX12Buffer (src/unnamed/part_001) ----
    buffers,          \* the buffer objects: name -> fields and device memory
    gpuQueue,         \* command lists handed to the direct queue and not yet executed
    recorderList,     \* commands recorded into the caller's command recorder, not yet submitted
    lastStream,       \* history: the commands the last performCopy recorded
    lastWrite,        \* history: the arguments of the last write()
    readView,         \* history: what the last beginRead() returned, as the caller sees it on return
    bufLastOps,       \* history: the last two operations called on buffer "A"
    bufOps,           \* number of operations called so far
    \* ---- DefaultCacheHandler (src/Engine/Xenon/Layers/GBufferLayer.hpp) ----
    files,            \* the files of the working directory: name -> content
    lastLoad,         \* history: the last load() call and what it returned
    stored,           \* history: hash -> the bytes of the last store() for it
    \* ---- VulkanRasterizingPipeline (src/unnamed/part_009) ----
    constructed,              \* the constructor has run
    m_Specification,          \* the vertex and fragment shader of the pipeline
    m_pCacheHandler,          \* "null" or "handler"
    m_BindingMap,             \* set -> binding -> [m_Type, m_ApplicableShaders]
    m_VertexInputBindings,    \* the instance input binding, if any
    m_VertexInputAttributes,  \* the attributes derived from the vertex shader
    m_ShaderStageCreateInfo,  \* the stages a shader module was created for
    m_Pipelines,              \* hash -> PipelineStorage
    m_Mutex,                  \* "free" or the thread that holds the lock
    threads,                  \* thread -> its position in getPipeline/recreate
    device,                   \* the live and destroyed backend objects
    callLog,                  \* history: thread -> backend and handler calls of its call
    lastReturn,               \* history: thread -> what its last getPipeline returned
    requested,                \* history: the hashes getPipeline was called with
    pipeCalls,                \* number of calls made so far
    pipeAborted,              \* a fatal backend failure ended the process
    \* ---- host threads submitting to one graphics queue (src/unnamed/part_010) ----
    submitThreads,            \* thread -> its position in submit() and its local descriptors
    queueGuard,               \* "free" or the thread inside the queue's access()
    queueSubmits,             \* number of vkQueueSubmit calls the queue has received
    \* ---- the compile of a variant, run on its own (src/unnamed/part_009) ----
    tieOrder,                 \* how the build's sort leaves attributes of equal offset
    compiles,                 \* history: the inputs and the attribute sequence of every compile
    \* ---- Scene (src/Engine/Xenon/Scene.cpp) ----
    sceneMutex,               \* Scene::m_Mutex: "free" or the thread that owns it
    m_UniqueLock,             \* whether Scene::m_UniqueLock owns the mutex
    sceneThreads,             \* position of every host thread inside createMaterial()
    m_Registry,               \* the number of materials and of light sources in the registry
    m_pLightSourceUniform,    \* whether it is null, the buffer's size, the size of the last write
    m_SceneInformation,       \* the scene information the shaders read
    sceneHistory,             \* history: the last lifecycle call and what went wrong so far
    sceneCalls,               \* number of calls made so far
    sceneCrashed              \* the process died inside a call on the scene

subVars == <<subPc, submitInfos, m_bIsWaiting, m_WaitFence, subCrashed,
             lastCall, queueLog, waitedSinceSubmit, disciplined>>

bufVars == <<buffers, gpuQueue, recorderList, lastStream, lastWrite, readView,
             bufLastOps, bufOps>>

cacheVars == <<files, lastLoad, stored>>

ctorVars == <<constructed, m_Specification, m_pCacheHandler, m_BindingMap,
              m_VertexInputBindings, m_VertexInputAttributes, m_ShaderStageCreateInfo>>

variantVars == <<m_Pipelines, m_Mutex, threads, device, callLog, lastReturn, requested,
                 pipeCalls, pipeAborted>>

queueVars == <<submitThreads, queueGuard, queueSubmits>>

compileVars == <<tieOrder, compiles>>

sceneVars == <<sceneMutex, m_UniqueLock, sceneThreads, m_Registry, m_pLightSourceUniform,
               m_SceneInformation, sceneHistory, sceneCalls, sceneCrashed>>

vars == <<subVars, bufVars, cacheVars, ctorVars, variantVars, queueVars, compileVars,
          sceneVars>>

\* What the actions of one component leave alone.
otherThanSub ==
    <<bufVars, cacheVars, ctorVars, variantVars, queueVars, compileVars, sceneVars>>
otherThanBuf ==
    <<subVars, cacheVars, ctorVars, variantVars, queueVars, compileVars, sceneVars>>
otherThanCache ==
    <<subVars, bufVars, ctorVars, variantVars, queueVars, compileVars, sceneVars>>
otherThanCtor ==
    <<subVars, bufVars, cacheVars, variantVars, queueVars, compileVars, sceneVars>>
otherThanVariants ==
    <<subVars, bufVars, ctorVars, queueVars, compileVars, sceneVars>>
otherThanCompile ==
    <<subVars, bufVars, cacheVars, ctorVars, variantVars, queueVars, sceneVars>>
otherThanScene ==
    <<subVars, bufVars, cacheVars, ctorVars, variantVars, queueVars, compileVars>>
otherThanQueue ==
    <<subVars, bufVars, cacheVars, ctorVars, variantVars, compileVars, sceneVars>>

-----------------------------------------------------------------------------
(* Bounds of the model.                                                    *)

\* Most batches in one submit() call.
MaxBatches == 2
\* Most bytes one write() or copy() moves.
MaxWrite == 1
\* Most operations called on the buffers in one run.
MaxBufOps == 2
\* Most bytes in one pipeline cache blob.
MaxBlob == 1
\* Most resources one shader declares.
MaxResources == 2
\* Most getPipeline and recreate calls on one pipeline object, called one
\* after the other.
MaxPipeCalls == 3
\* Most getPipeline and recreate calls made by concurrent threads.
MaxThreadCalls == 2
\* vkQueueSubmit calls the shared queue receives
MaxQueueSubmits == 3
\* compiles of one run
MaxCompiles == 3

-----------------------------------------------------------------------------
(* Small helpers.                                                          *)

Last(s) == s[Len(s)]

Range(s) == {s[i] : i \in 1..Len(s)}

\* All sequences over S of length at most n.
SeqsUpTo(S, n) == UNION {[1..k -> S] : k \in 0..n}

-----------------------------------------------------------------------------
(* VulkanCommandSubmitter                                                  *)

\* The command recorders a caller may put in a batch.
Recorders == {"r1", "r2"}

\* pSwapchain: a null pointer, a swapchain that is not renderable, a renderable one.
Swapchains == {"null", "notRenderable", "renderable"}

\* VulkanCommandBuffer::getSignalSemaphore of the recorder's current command buffer.
getSignalSemaphore(r) == <<"signal", r>>

\* VulkanCommandBuffer::getStageFlags of the recorder's current command buffer.
getStageFlags(r) == <<"stage", r>>

\* VulkanSwapchain::getInFlightSemaphorePtr / getRenderFinishedSemaphorePtr.
InFlightSemaphore == <<"swapchain", "inFlight">>
RenderFinishedSemaphore == <<"swapchain", "renderFinished">>
ColorAttachmentOutputBit == <<"stage", "colorAttachmentOutput">>

\* pVkSwapchain != nullptr && pVkSwapchain->isRenderable()
IsRenderable(swapchain) == swapchain = "renderable"

\* The loop of submit() over the batches (lines 67-106). waitSemaphores and
\* waitStageFlags are the two vectors of vectors the loop appends to; a
\* descriptor takes its wait set from their last element, and only inside the
\* loop over the batch's recorders, so a batch without recorders gets none.
RECURSIVE BatchLoop(_, _, _, _, _)
BatchLoop(batches, i, infos, waitSemaphores, waitStageFlags) ==
    IF i > Len(batches) THEN infos
    ELSE
      LET batch == batches[i]
          batchSignalSemaphores == [k \in 1..Len(batch) |-> getSignalSemaphore(batch[k])]
          waitFlags == [k \in 1..Len(batch) |-> getStageFlags(batch[k])]
          hasWait == Len(batch) > 0 /\ Len(waitSemaphores) > 0
          submitInfo ==
            [ commandBuffers   |-> batch,
              waitSemaphores   |-> IF hasWait THEN Last(waitSemaphores) ELSE <<>>,
              waitDstStageMask |-> IF hasWait THEN Last(waitStageFlags) ELSE <<>>,
              signalSemaphores |-> batchSignalSemaphores ]
      IN BatchLoop(batches, i + 1, Append(infos, submitInfo),
                   Append(waitSemaphores, batchSignalSemaphores),
                   Append(waitStageFlags, waitFlags))

\* The last descriptor signals the swapchain's render-finished semaphore
\* instead of its own (lines 108-114).
SwapchainSignal(infos, swapchain) ==
    IF Len(infos) > 0 /\ IsRenderable(swapchain)
    THEN [infos EXCEPT ![Len(infos)].signalSemaphores = <<RenderFinishedSemaphore>>]
    ELSE infos

\* The descriptors submit() builds for a batch list and a swapchain (lines 46-114).
BuildSubmitInfos(batches, swapchain) ==
    LET renderable == IsRenderable(swapchain)
        waitSemaphores == IF renderable THEN << <<InFlightSemaphore>> >> ELSE <<>>
        waitStageFlags == IF renderable THEN << <<ColorAttachmentOutputBit>> >> ELSE <<>>
    IN SwapchainSignal(BatchLoop(batches, 1, <<>>, waitSemaphores, waitStageFlags), swapchain)

\* The batches a caller passes: no recorder, one, or two.
Batches == {<<>>, <<"r1">>, <<"r2">>, <<"r1", "r2">>}

BatchLists == SeqsUpTo(Batches, MaxBatches)

NoCall == [op |-> "none", outstanding |-> FALSE, fenceOps |-> <<>>]
NoQueueSubmit == [count |-> 0, fenceBefore |-> "never", afterWait |-> FALSE]

\* The state after VulkanCommandSubmitter's constructor: a fence created
\* unsignaled (flags = 0) and no submission outstanding.
SubInit ==
    /\ subPc = "idle"
    /\ submitInfos = <<>>
    /\ m_bIsWaiting = FALSE
    /\ m_WaitFence = "unsignaled"
    /\ subCrashed = FALSE
    /\ lastCall = NoCall
    /\ queueLog = NoQueueSubmit
    /\ waitedSinceSubmit = TRUE
    /\ disciplined = TRUE

\* submit(), lines 42-114: the descriptors are built and the outstanding flag
\* is set; the queue has not been touched yet.
SubmitBuild(batches, swapchain) ==
    /\ UNCHANGED otherThanSub
    /\ subPc = "idle" /\ ~subCrashed
    /\ subPc' = "queue"
    /\ submitInfos' = BuildSubmitInfos(batches, swapchain)
    /\ m_bIsWaiting' = (Len(batches) # 0)
    /\ disciplined' = (disciplined /\ waitedSinceSubmit)
    /\ waitedSinceSubmit' = FALSE
    /\ lastCall' = [op |-> "submit", outstanding |-> ~waitedSinceSubmit, fenceOps |-> <<>>]
    /\ UNCHANGED <<m_WaitFence, subCrashed, queueLog>>

\* submit(nullptr): line 58 calls a member function through the null pointer.
\* Besides going on with a null pVkSwapchain (SubmitBuild), the build may read
\* the swapchain's renderable flag through it and die.
SubmitNullCrash ==
    /\ UNCHANGED otherThanSub
    /\ subPc = "idle" /\ ~subCrashed
    /\ subCrashed' = TRUE
    /\ UNCHANGED <<subPc, submitInfos, m_bIsWaiting, m_WaitFence, lastCall, queueLog,
                   waitedSinceSubmit, disciplined>>

\* submit(), lines 116-121: one vkQueueSubmit with all the descriptors and the
\* fence. The fence becomes pending. Handing over a fence that is not
\* unsignaled is invalid usage: the fence may then stay signaled.
SubmitQueue ==
    /\ UNCHANGED otherThanSub
    /\ subPc = "queue"
    /\ subPc' = "idle"
    /\ queueLog' = [count |-> Len(submitInfos), fenceBefore |-> m_WaitFence,
                    afterWait |-> disciplined]
    /\ submitInfos' = <<>>
    /\ \/ m_WaitFence' = "pending"
       \/ m_WaitFence = "signaled" /\ m_WaitFence' = "signaled"
    /\ UNCHANGED <<m_bIsWaiting, subCrashed, lastCall, waitedSinceSubmit, disciplined>>

\* The device finishes the work the fence was submitted with.
DeviceSignalFence ==
    /\ UNCHANGED otherThanSub
    /\ m_WaitFence = "pending"
    /\ m_WaitFence' = "signaled"
    /\ UNCHANGED <<subPc, submitInfos, m_bIsWaiting, subCrashed, lastCall, queueLog,
                   waitedSinceSubmit, disciplined>>

\* wait(), lines 124-134, with the default (unbounded) timeout, up to the
\* blocking call: if a submission is outstanding the caller enters
\* vkWaitForFences; otherwise wait() returns at once and has done nothing.
SubmitterWait ==
    /\ UNCHANGED otherThanSub
    /\ subPc = "idle" /\ ~subCrashed
    /\ IF m_bIsWaiting
       THEN /\ subPc' = "waiting"
            /\ lastCall' = [op |-> "wait", outstanding |-> ~waitedSinceSubmit,
                            fenceOps |-> <<"vkWaitForFences">>]
            /\ UNCHANGED waitedSinceSubmit
       ELSE /\ subPc' = "idle"
            /\ lastCall' = [op |-> "wait", outstanding |-> ~waitedSinceSubmit,
                            fenceOps |-> <<>>]
            /\ waitedSinceSubmit' = TRUE
    /\ UNCHANGED <<submitInfos, m_bIsWaiting, m_WaitFence, subCrashed, queueLog, disciplined>>

\* A faulty variant of SubmitterWaitReturn: line 132 is missing, the flag stays set.
SubmitterWaitReturn_KeepsFlag ==
    /\ UNCHANGED otherThanSub
    /\ subPc = "waiting"
    /\ m_WaitFence = "signaled"
    /\ m_WaitFence' = "unsignaled"
    /\ subPc' = "idle"
    /\ lastCall' = [lastCall EXCEPT !.fenceOps = Append(@, "vkResetFences")]
    /\ waitedSinceSubmit' = TRUE
    /\ UNCHANGED <<submitInfos, m_bIsWaiting, subCrashed, queueLog, disciplined>>

\* wait(), lines 130-132: vkWaitForFences returns once the fence is signaled;
\* the fence is reset and the outstanding flag cleared.
SubmitterWaitReturn ==
    /\ UNCHANGED otherThanSub
    /\ subPc = "waiting"
    /\ m_WaitFence = "signaled"
    /\ m_WaitFence' = "unsignaled"
    /\ m_bIsWaiting' = FALSE
    /\ subPc' = "idle"
    /\ lastCall' = [lastCall EXCEPT !.fenceOps = Append(@, "vkResetFences")]
    /\ waitedSinceSubmit' = TRUE
    /\ UNCHANGED <<submitInfos, subCrashed, queueLog, disciplined>>

\* vkDestroyFence on a fence in the given state. Destroying a fence that a
\* queue submission still refers to is invalid usage; the state keeps that fact.
DestroyFence(fence) == IF fence = "pending" THEN "destroyedPending" ELSE "destroyed"

\* ~VulkanCommandSubmitter(), lines 28-40, up to the blocking call inside
\* wait(): with the outstanding flag set the destructor enters vkWaitForFences;
\* otherwise wait() does nothing and line 39 destroys the fence at once.
SubmitterDestroy ==
    /\ UNCHANGED otherThanSub
    /\ subPc = "idle" /\ ~subCrashed
    /\ IF m_bIsWaiting
       THEN /\ subPc' = "destroyWaiting"
            /\ lastCall' = [op |-> "destroy", outstanding |-> ~waitedSinceSubmit,
                            fenceOps |-> <<"vkWaitForFences">>]
            /\ UNCHANGED m_WaitFence
       ELSE /\ subPc' = "destroyed"
            /\ lastCall' = [op |-> "destroy", outstanding |-> ~waitedSinceSubmit,
                            fenceOps |-> <<"vkDestroyFence">>]
            /\ m_WaitFence' = DestroyFence(m_WaitFence)
    /\ UNCHANGED <<submitInfos, m_bIsWaiting, subCrashed, queueLog, waitedSinceSubmit,
                   disciplined>>

\* ~VulkanCommandSubmitter(), wait() lines 130-132 then line 39: the fence is
\* signaled, vkWaitForFences returns, the fence is reset, the flag cleared and
\* the fence destroyed.
SubmitterDestroyWaitReturn ==
    /\ UNCHANGED otherThanSub
    /\ subPc = "destroyWaiting" /\ ~subCrashed
    /\ m_WaitFence = "signaled"
    /\ m_WaitFence' = DestroyFence("unsignaled")
    /\ m_bIsWaiting' = FALSE
    /\ subPc' = "destroyed"
    /\ lastCall' = [lastCall EXCEPT
                       !.fenceOps = @ \o <<"vkResetFences", "vkDestroyFence">>]
    /\ waitedSinceSubmit' = TRUE
    /\ UNCHANGED <<submitInfos, subCrashed, queueLog, disciplined>>

\* ~VulkanCommandSubmitter(), wait() line 130 failing (the device is lost while
\* the destructor blocks). XENON_VK_ASSERT is not part of the sources at hand:
\* either it ends the process, or it raises; what it raises is caught at lines
\* 34-37, line 132 has been skipped, and line 39 destroys the fence.
SubmitterDestroyWaitFails ==
    /\ UNCHANGED otherThanSub
    /\ subPc = "destroyWaiting" /\ ~subCrashed
    /\ \/ /\ subCrashed' = TRUE
          /\ UNCHANGED <<subPc, m_WaitFence, lastCall>>
       \/ /\ subPc' = "destroyed"
          /\ m_WaitFence' = DestroyFence(m_WaitFence)
          /\ lastCall' = [lastCall EXCEPT !.fenceOps = Append(@, "vkDestroyFence")]
          /\ UNCHANGED subCrashed
    /\ UNCHANGED <<submitInfos, m_bIsWaiting, queueLog, waitedSinceSubmit, disciplined>>

SubNext ==
    \/ \E batches \in BatchLists, swapchain \in Swapchains : SubmitBuild(batches, swapchain)
    \/ SubmitNullCrash
    \/ SubmitQueue
    \/ DeviceSignalFence
    \/ SubmitterWait
    \/ SubmitterWaitReturn
    \/ SubmitterDestroy
    \/ SubmitterDestroyWaitReturn
    \/ SubmitterDestroyWaitFails

-----------------------------------------------------------------------------
(* Host threads calling submit() on submitters that share the device's     *)
(* graphics queue                                                          *)

\* Every thread owns one submitter; all of them use m_pDevice's graphics queue.
SubmitThreads == {"h1", "h2"}

\* What the threads submit: nothing, one batch, or two batches.
SharedBatchLists == {<<>>, << <<"r1">> >>, << <<"r1">>, <<"r2">> >>}

SharedSwapchains == {"notRenderable", "renderable"}

QueueIdle ==
    /\ submitThreads = [t \in SubmitThreads |-> [pc |-> "idle", submitInfos |-> <<>>]]
    /\ queueGuard = "free"
    /\ queueSubmits = 0

\* submit() is entered (line 42): the local vectors exist and are empty.
SharedSubmitCall(t) ==
    /\ UNCHANGED otherThanQueue
    /\ submitThreads[t].pc = "idle"
    /\ queueSubmits < MaxQueueSubmits
    /\ submitThreads' = [submitThreads EXCEPT ![t] = [pc |-> "building", submitInfos |-> <<>>]]
    /\ UNCHANGED <<queueGuard, queueSubmits>>

\* submit(), lines 46-114: the descriptors are built into the local vector.
\* The queue's access() has not been called yet.
SharedSubmitBuild(t, batches, swapchain) ==
    /\ UNCHANGED otherThanQueue
    /\ submitThreads[t].pc = "building"
    /\ submitThreads' = [submitThreads EXCEPT
                           ![t] = [pc |-> "built",
                                   submitInfos |-> BuildSubmitInfos(batches, swapchain)]]
    /\ UNCHANGED <<queueGuard, queueSubmits>>

\* A faulty variant of QueueAccessEnter: the callback runs without the guard.
QueueAccessEnter_NoGuard(t) ==
    /\ UNCHANGED otherThanQueue
    /\ submitThreads[t].pc = "built"
    /\ submitThreads' = [submitThreads EXCEPT ![t].pc = "vkQueueSubmit"]
    /\ UNCHANGED <<queueGuard, queueSubmits>>

\* submit(), line 117: getGraphicsQueue().access(...) takes the queue's guard
\* and runs the callback, which holds the moved descriptors.
QueueAccessEnter(t) ==
    /\ UNCHANGED otherThanQueue
    /\ submitThreads[t].pc = "built"
    /\ queueGuard = "free"
    /\ queueGuard' = t
    /\ submitThreads' = [submitThreads EXCEPT ![t].pc = "vkQueueSubmit"]
    /\ UNCHANGED queueSubmits

\* submit(), lines 119-121: vkQueueSubmit returns, the callback ends and
\* access() gives the guard back.
QueueAccessLeave(t) ==
    /\ UNCHANGED otherThanQueue
    /\ submitThreads[t].pc = "vkQueueSubmit"
    /\ queueSubmits' = queueSubmits + 1
    /\ queueGuard' = IF queueGuard = t THEN "free" ELSE queueGuard
    /\ submitThreads' = [submitThreads EXCEPT ![t] = [pc |-> "idle", submitInfos |-> <<>>]]

QueueThreadsNext ==
    \E t \in SubmitThreads :
        \/ SharedSubmitCall(t)
        \/ \E batches \in SharedBatchLists, swapchain \in SharedSwapchains :
               SharedSubmitBuild(t, batches, swapchain)
        \/ QueueAccessEnter(t)
        \/ QueueAccessLeave(t)

-----------------------------------------------------------------------------
(* DX12Buffer                                                              *)

\* The byte values a caller writes.
Bytes == {1, 2}

\* D3D12_CONSTANT_BUFFER_DATA_PLACEMENT_ALIGNMENT
ConstantBufferAlignment == 256

BufferTypes == {"Index", "Vertex", "Staging", "Storage", "Uniform", "BackendSpecific"}

CeilDiv(a, b) == (a + b - 1) \div b

\* DX12Buffer(pDevice, size, type), lines 14-76. m_HeapType keeps its default,
\* D3D12_HEAP_TYPE_DEFAULT; a type outside the five cases becomes Staging.
NewBuffer(size, type) ==
    [ m_Type         |-> IF type \in {"Index", "Vertex", "Staging", "Storage", "Uniform"}
                         THEN type ELSE "Staging",
      m_Size         |-> IF type = "Uniform"
                         THEN CeilDiv(size, ConstantBufferAlignment) * ConstantBufferAlignment
                         ELSE size,
      m_HeapType     |-> "DEFAULT",
      m_CurrentState |-> CASE type = "Index"  -> "INDEX_BUFFER"
                           [] type = "Vertex" -> "VERTEX_AND_CONSTANT_BUFFER"
                           [] OTHER           -> "COMMON",
      m_pTemporaryReadBuffer  |-> "null",
      m_pTemporaryWriteBuffer |-> "null",
      mem            |-> <<>> ]

\* DX12Buffer(pDevice, size, heapType, resourceStates), lines 78-102.
NewInternalBuffer(size, heapType, resourceStates) ==
    [ m_Type         |-> "BackendSpecific",
      m_Size         |-> size,
      m_HeapType     |-> heapType,
      m_CurrentState |-> resourceStates,
      m_pTemporaryReadBuffer  |-> "null",
      m_pTemporaryWriteBuffer |-> "null",
      mem            |-> <<>> ]

\* Device memory is a partial function from offsets to bytes: an offset that
\* was never written holds no defined value and is not in the domain.
\* std::copy_n(pData, size, memory + offset)
CopyN(mem, data, offset) ==
    [o \in DOMAIN mem \cup {offset + k - 1 : k \in 1..Len(data)} |->
        IF o >= offset /\ o < offset + Len(data) THEN data[o - offset + 1] ELSE mem[o]]

\* CopyBufferRegion(dst, dstOffset, src, srcOffset, size) on the device.
CopyBufferRegion(dstMem, dstOffset, srcMem, srcOffset, size) ==
    LET target == {dstOffset + k : k \in 0..(size - 1)}
        defined == {o \in target : (o - dstOffset + srcOffset) \in DOMAIN srcMem}
    IN [o \in (DOMAIN dstMem \ target) \cup defined |->
           IF o \in target THEN srcMem[o - dstOffset + srcOffset] ELSE dstMem[o]]

Transition(resource, before, after) ==
    [kind |-> "barrier", resource |-> resource, before |-> before, after |-> after]

\* The condition performCopy puts on each of its four barriers.
NeedsBarrier(b) == b.m_CurrentState # "GENERIC_READ" /\ b.m_HeapType # "READBACK"

\* A faulty variant of performCopy: the barrier that restores the source is missing.
performCopy_NoSourceRestore(bufs, dst, src, size, srcOffset, dstOffset) ==
    (IF NeedsBarrier(bufs[dst])
       THEN <<Transition(dst, bufs[dst].m_CurrentState, "COPY_DEST")>> ELSE <<>>)
    \o (IF NeedsBarrier(bufs[src])
       THEN <<Transition(src, bufs[src].m_CurrentState, "COPY_SOURCE")>> ELSE <<>>)
    \o <<[kind |-> "copy", dst |-> dst, dstOffset |-> dstOffset,
          src |-> src, srcOffset |-> srcOffset, size |-> size]>>
    \o (IF NeedsBarrier(bufs[dst])
       THEN <<Transition(dst, "COPY_DEST", bufs[dst].m_CurrentState)>> ELSE <<>>)

\* performCopy, lines 230-268: the commands it records, dst being this and src
\* pBuffer. No field of either buffer is assigned.
performCopy(bufs, dst, src, size, srcOffset, dstOffset) ==
    (IF NeedsBarrier(bufs[dst])
       THEN <<Transition(dst, bufs[dst].m_CurrentState, "COPY_DEST")>> ELSE <<>>)
    \o (IF NeedsBarrier(bufs[src])
       THEN <<Transition(src, bufs[src].m_CurrentState, "COPY_SOURCE")>> ELSE <<>>)
    \o <<[kind |-> "copy", dst |-> dst, dstOffset |-> dstOffset,
          src |-> src, srcOffset |-> srcOffset, size |-> size]>>
    \o (IF NeedsBarrier(bufs[dst])
       THEN <<Transition(dst, "COPY_DEST", bufs[dst].m_CurrentState)>> ELSE <<>>)
    \o (IF NeedsBarrier(bufs[src])
       THEN <<Transition(src, "COPY_SOURCE", bufs[src].m_CurrentState)>> ELSE <<>>)

\* The device executes one command: a copy moves bytes, a barrier moves none.
ExecuteCommand(bufs, cmd) ==
    IF cmd.kind = "copy"
    THEN [bufs EXCEPT ![cmd.dst].mem =
            CopyBufferRegion(bufs[cmd.dst].mem, cmd.dstOffset,
                             bufs[cmd.src].mem, cmd.srcOffset, cmd.size)]
    ELSE bufs

RECURSIVE ExecuteCommands(_, _)
ExecuteCommands(bufs, cmds) ==
    IF cmds = <<>> THEN bufs
    ELSE ExecuteCommands(ExecuteCommand(bufs, Head(cmds)), Tail(cmds))

\* The device executes every command list of a queue, oldest first.
RECURSIVE ExecuteQueue(_, _)
ExecuteQueue(bufs, queue) ==
    IF queue = <<>> THEN bufs
    ELSE ExecuteQueue(ExecuteCommands(bufs, Head(queue).commands), Tail(queue))

\* The buffer's own command list is still on the queue: the allocator and the
\* list cannot be reset (lines 114-115) and copy() does not go on.
ListInFlight(queue, owner) == \E i \in 1..Len(queue) : queue[i].owner = owner

\* copy(), lines 109-146, called on dst with pBuffer = src: the copy is
\* recorded into dst's own command list and handed to the direct queue. If the
\* event is created, the call blocks until the device has passed the fence
\* signal, which is after everything on the queue; if CreateEvent fails the
\* call logs and returns with the list still on the queue (lines 136-140).
\* The result is the buffers and the queue on return.
copy(bufs, queue, dst, src, size, srcOffset, dstOffset, eventCreated) ==
    LET list == [owner |-> dst, origin |-> "copy",
                 commands |-> performCopy(bufs, dst, src, size, srcOffset, dstOffset)]
        submitted == Append(queue, list)
    IN IF eventCreated
       THEN [buffers |-> ExecuteQueue(bufs, submitted), queue |-> <<>>]
       ELSE [buffers |-> bufs, queue |-> submitted]

\* Names of the temporary buffers a buffer owns.
WriteBufferOf(b) == IF b = "A" THEN "A.write" ELSE "B.write"
ReadBufferOf(b) == IF b = "A" THEN "A.read" ELSE "B.read"

\* write() takes the direct path (line 153).
IsDirectWrite(b) == b.m_HeapType = "UPLOAD" /\ b.m_CurrentState = "GENERIC_READ"

\* A faulty variant of WithWriteBuffer: every staged write makes a new staging buffer.
WithWriteBuffer_Recreates(bufs, b) ==
    [n \in DOMAIN bufs \cup {WriteBufferOf(b)} |->
        IF n = WriteBufferOf(b)
        THEN NewInternalBuffer(bufs[b].m_Size, "UPLOAD", "GENERIC_READ")
        ELSE IF n = b THEN [bufs[b] EXCEPT !.m_pTemporaryWriteBuffer = WriteBufferOf(b)]
        ELSE bufs[n]]

\* The buffers after lines 170-171 of write(): the staging buffer exists.
WithWriteBuffer(bufs, b) ==
    IF bufs[b].m_pTemporaryWriteBuffer = "null"
    THEN [n \in DOMAIN bufs \cup {WriteBufferOf(b)} |->
            IF n = WriteBufferOf(b)
            THEN NewInternalBuffer(bufs[b].m_Size, "UPLOAD", "GENERIC_READ")
            ELSE IF n = b THEN [bufs[b] EXCEPT !.m_pTemporaryWriteBuffer = WriteBufferOf(b)]
            ELSE bufs[n]]
    ELSE bufs

\* The buffers after lines 211-212 of map(): the read-back buffer exists.
WithReadBuffer(bufs, b) ==
    IF bufs[b].m_pTemporaryReadBuffer = "null"
    THEN [n \in DOMAIN bufs \cup {ReadBufferOf(b)} |->
            IF n = ReadBufferOf(b)
            THEN NewInternalBuffer(bufs[b].m_Size, "READBACK", "COPY_DEST")
            ELSE IF n = b THEN [bufs[b] EXCEPT !.m_pTemporaryReadBuffer = ReadBufferOf(b)]
            ELSE bufs[n]]
    ELSE bufs

\* How buffer "A" was created: by the public constructor with one of the
\* buffer types, or by the internal constructor as an upload or a read-back
\* buffer.
BufferKinds == {"Vertex", "Uniform", "Upload", "Readback"}

\* The sizes in bytes the buffers are created with.
BufferSizes == {3}

CreateBuffer(kind, size) ==
    CASE kind = "Upload"   -> NewInternalBuffer(size, "UPLOAD", "GENERIC_READ")
      [] kind = "Readback" -> NewInternalBuffer(size, "READBACK", "COPY_DEST")
      [] OTHER             -> NewBuffer(size, kind)

NoWrite == [data |-> <<>>, offset |-> 0, staged |-> FALSE, recorder |-> FALSE]

\* Two buffers exist: "A", created in any of the ways above, and "B", a vertex
\* buffer that other code has filled.
BufInit ==
    /\ \E kindA \in BufferKinds, kindB \in {"Vertex"}, size \in BufferSizes :
          buffers = [n \in {"A", "B"} |->
                      IF n = "A" THEN CreateBuffer(kindA, size)
                      ELSE [CreateBuffer(kindB, size) EXCEPT
                              !.mem = [o \in 0..(size - 1) |-> 1 + (o % 2)]]]
    /\ gpuQueue = <<>>
    /\ recorderList = <<>>
    /\ lastStream = <<>>
    /\ lastWrite = NoWrite
    /\ readView = <<>>
    /\ bufLastOps = <<"none", "none">>
    /\ bufOps = 0

\* The idle state of the buffers in the specifications of other components.
BufIdle ==
    /\ buffers = <<>>
    /\ gpuQueue = <<>>
    /\ recorderList = <<>>
    /\ lastStream = <<>>
    /\ lastWrite = NoWrite
    /\ readView = <<>>
    /\ bufLastOps = <<"none", "none">>
    /\ bufOps = 0

\* The offsets a caller passes.
Offsets == {0, 1}

\* The data a caller writes: of every size up to MaxWrite, bytes that
\* alternate, starting with either value.
WriteData ==
    {[i \in 1..n |-> 1 + ((first + i) % 2)] : n \in 1..MaxWrite, first \in Bytes}

\* A.write(pData, size, offset, pCommandRecorder), lines 148-190. data is the
\* size bytes at pData; hasRecorder tells whether a command recorder was
\* given; eventCreated is the outcome of CreateEvent inside copy().
BufferWrite(data, offset, hasRecorder, eventCreated) ==
    /\ UNCHANGED otherThanBuf
    /\ bufOps < MaxBufOps
    /\ offset + Len(data) <= buffers["A"].m_Size
    /\ IF IsDirectWrite(buffers["A"])
       THEN /\ buffers' = [buffers EXCEPT !["A"].mem = CopyN(@, data, offset)]
            /\ UNCHANGED <<gpuQueue, recorderList>>
            /\ lastStream' = <<>>
            /\ lastWrite' = [data |-> data, offset |-> offset, staged |-> FALSE,
                             recorder |-> hasRecorder]
       ELSE LET created == WithWriteBuffer(buffers, "A")
                staging == WriteBufferOf("A")
                filled == [created EXCEPT ![staging].mem = CopyN(@, data, offset)]
            IN /\ lastWrite' = [data |-> data, offset |-> offset, staged |-> TRUE,
                                recorder |-> hasRecorder]
               /\ lastStream' = performCopy(filled, "A", staging, Len(data), offset, offset)
               /\ IF hasRecorder
                  THEN /\ buffers' = filled
                       /\ recorderList' = recorderList \o lastStream'
                       /\ UNCHANGED gpuQueue
                  ELSE /\ ~ListInFlight(gpuQueue, "A")
                       /\ LET r == copy(filled, gpuQueue, "A", staging, Len(data),
                                        offset, offset, eventCreated)
                          IN /\ buffers' = r.buffers
                             /\ gpuQueue' = r.queue
                       /\ UNCHANGED recorderList
    /\ bufLastOps' = <<bufLastOps[2], IF hasRecorder THEN "writeRecorded" ELSE "write">>
    /\ bufOps' = bufOps + 1
    /\ UNCHANGED readView

\* A.beginRead(), lines 192-221: map() creates the read-back buffer if needed,
\* copies all of A into it with copy() and maps it. The view is the read-back
\* memory as it is when beginRead returns.
BufferBeginRead(eventCreated) ==
    /\ UNCHANGED otherThanBuf
    /\ bufOps < MaxBufOps
    /\ LET created == WithReadBuffer(buffers, "A")
           readBack == ReadBufferOf("A")
       IN /\ ~ListInFlight(gpuQueue, readBack)
          /\ LET r == copy(created, gpuQueue, readBack, "A", created["A"].m_Size, 0, 0,
                           eventCreated)
             IN /\ buffers' = r.buffers
                /\ gpuQueue' = r.queue
                /\ readView' = r.buffers[readBack].mem
          /\ lastStream' = performCopy(created, readBack, "A", created["A"].m_Size, 0, 0)
    /\ bufLastOps' = <<bufLastOps[2], "beginRead">>
    /\ bufOps' = bufOps + 1
    /\ UNCHANGED <<recorderList, lastWrite>>

\* A.copy(pBuffer, size, srcOffset, dstOffset), lines 109-146, with pBuffer
\* the buffer "B" or "A" itself.
BufferCopy(src, size, srcOffset, dstOffset, eventCreated) ==
    /\ UNCHANGED otherThanBuf
    /\ bufOps < MaxBufOps
    /\ srcOffset + size <= buffers[src].m_Size
    /\ dstOffset + size <= buffers["A"].m_Size
    /\ ~ListInFlight(gpuQueue, "A")
    /\ LET r == copy(buffers, gpuQueue, "A", src, size, srcOffset, dstOffset, eventCreated)
       IN /\ buffers' = r.buffers
          /\ gpuQueue' = r.queue
    /\ lastStream' = performCopy(buffers, "A", src, size, srcOffset, dstOffset)
    /\ bufLastOps' = <<bufLastOps[2], "copy">>
    /\ bufOps' = bufOps + 1
    /\ UNCHANGED <<recorderList, lastWrite, readView>>

\* The caller submits the command recorder: its commands go to the direct queue.
RecorderSubmit ==
    /\ UNCHANGED otherThanBuf
    /\ recorderList # <<>>
    /\ gpuQueue' = Append(gpuQueue, [owner |-> "recorder", origin |-> "recorder",
                                     commands |-> recorderList])
    /\ recorderList' = <<>>
    /\ UNCHANGED <<buffers, lastStream, lastWrite, readView, bufLastOps, bufOps>>

\* The device executes the oldest command list on the direct queue.
DeviceExecute ==
    /\ UNCHANGED otherThanBuf
    /\ gpuQueue # <<>>
    /\ buffers' = ExecuteCommands(buffers, Head(gpuQueue).commands)
    /\ gpuQueue' = Tail(gpuQueue)
    /\ UNCHANGED <<recorderList, lastStream, lastWrite, readView, bufLastOps, bufOps>>

BufNext ==
    \/ \E data \in WriteData, offset \in Offsets,
          hasRecorder \in BOOLEAN, eventCreated \in BOOLEAN :
            BufferWrite(data, offset, hasRecorder, eventCreated)
    \/ \E eventCreated \in BOOLEAN : BufferBeginRead(eventCreated)
    \/ \E src \in {"A", "B"}, size \in 1..MaxWrite, srcOffset \in Offsets,
          dstOffset \in Offsets, eventCreated \in BOOLEAN :
            BufferCopy(src, size, srcOffset, dstOffset, eventCreated)
    \/ RecorderSubmit
    \/ DeviceExecute

-----------------------------------------------------------------------------
(* 64-bit hashes                                                           *)

\* A uint64_t is four 16-bit words, most significant first.
WordBase == 2^16

U64(w3, w2, w1, w0) == <<w3, w2, w1, w0>>

\* digits * m + carry on a decimal number given least significant digit first.
RECURSIVE MulAdd(_, _, _)
MulAdd(digits, m, carry) ==
    IF digits = <<>>
    THEN IF carry = 0 THEN <<>> ELSE <<carry % 10>> \o MulAdd(<<>>, m, carry \div 10)
    ELSE LET v == Head(digits) * m + carry
         IN <<v % 10>> \o MulAdd(Tail(digits), m, v \div 10)

Reverse(s) == [i \in 1..Len(s) |-> s[Len(s) + 1 - i]]

\* fmt::format("{}", hash): the decimal digits of a uint64_t, no leading zero.
FormatDecimal(hash) ==
    LET d1 == MulAdd(<<>>, WordBase, hash[1])
        d2 == MulAdd(d1, WordBase, hash[2])
        d3 == MulAdd(d2, WordBase, hash[3])
        d4 == MulAdd(d3, WordBase, hash[4])
    IN IF d4 = <<>> THEN <<0>> ELSE Reverse(d4)

-----------------------------------------------------------------------------
(* DefaultCacheHandler                                                     *)

\* A faulty variant of CacheFileName: the last digit of the hash is dropped.
CacheFileName_Truncated(hash) ==
    LET d == FormatDecimal(hash)
    IN (IF Len(d) > 1 THEN SubSeq(d, 1, Len(d) - 1) ELSE d) \o <<".bin">>

\* fmt::format("{}.bin", hash), lines 261 and 278.
CacheFileName(hash) == FormatDecimal(hash) \o <<".bin">>

\* DefaultCacheHandler::load, lines 258-274: the whole content of the file, or
\* nothing if the file cannot be opened.
DefaultLoad(fs, hash) ==
    LET name == CacheFileName(hash)
    IN IF name \in DOMAIN fs THEN fs[name] ELSE <<>>

\* DefaultCacheHandler::store, lines 276-284: the file is created or
\* truncated (std::ios::out) and holds exactly bytes afterwards. The working
\* directory is writable.
DefaultStore(fs, hash, bytes) ==
    LET name == CacheFileName(hash)
    IN [n \in DOMAIN fs \cup {name} |-> IF n = name THEN bytes ELSE fs[n]]

\* The hashes the handler is called with.
CacheHashes == {U64(0, 0, 0, 1), U64(0, 0, 0, 10), U64(65535, 65535, 65535, 65535)}

Blobs == SeqsUpTo(Bytes, MaxBlob)

NoLoad == [hash |-> <<>>, bytes |-> <<>>, called |-> FALSE]

\* No cache file exists.
CacheInit ==
    /\ files = <<>>
    /\ lastLoad = NoLoad
    /\ stored = <<>>

CacheIdle == CacheInit

\* handler.store(hash, bytes)
CacheStore(hash, bytes) ==
    /\ files' = DefaultStore(files, hash, bytes)
    /\ stored' = [h \in DOMAIN stored \cup {hash} |-> IF h = hash THEN bytes ELSE stored[h]]
    /\ UNCHANGED lastLoad
    /\ UNCHANGED otherThanCache

\* handler.load(hash)
CacheLoad(hash) ==
    /\ lastLoad' = [hash |-> hash, bytes |-> DefaultLoad(files, hash), called |-> TRUE]
    /\ UNCHANGED <<files, stored>>
    /\ UNCHANGED otherThanCache

CacheNext ==
    \/ \E hash \in CacheHashes, bytes \in Blobs : CacheStore(hash, bytes)
    \/ \E hash \in CacheHashes : CacheLoad(hash)

-----------------------------------------------------------------------------
(* VulkanRasterizingPipeline: shader reflection and the constructor        *)

\* The bits of ShaderType.
ShaderTypeVertex == 1
ShaderTypeFragment == 2

\* a | b on naturals.
RECURSIVE BitOr(_, _)
BitOr(a, b) ==
    IF a = 0 THEN b
    ELSE IF b = 0 THEN a
    ELSE (IF a % 2 = 1 \/ b % 2 = 1 THEN 1 ELSE 0) + 2 * BitOr(a \div 2, b \div 2)

\* a & b on naturals.
RECURSIVE BitAnd(_, _)
BitAnd(a, b) ==
    IF a = 0 \/ b = 0 THEN 0
    ELSE (IF a % 2 = 1 /\ b % 2 = 1 THEN 1 ELSE 0) + 2 * BitAnd(a \div 2, b \div 2)

DescriptorTypes == {"UserDefined", "Material", "PerGeometry", "Scene"}

\* The elements of InputElement a shader input location can name.
VertexElements == {"VertexPosition", "VertexNormal"}
InstanceElements == {"InstancePosition", "InstanceRotation", "InstanceScale", "InstanceID"}

IsVertexElement(element) == element \in VertexElements

\* InstanceEntry: position, rotation and scale of three floats, then the ID.
InstanceEntryOffset ==
    [InstancePosition |-> 0, InstanceRotation |-> 12, InstanceScale |-> 24, InstanceID |-> 36]

InstanceEntrySize == 40

\* A faulty variant of ResourceLoop: a recurring (set, binding) takes the mask of the
\* latest stage.
RECURSIVE ResourceLoop_Overwrite(_, _, _, _)
ResourceLoop_Overwrite(resources, i, bindingMap, type) ==
    IF i > Len(resources) THEN bindingMap
    ELSE
        LET resource == resources[i]
            set == resource.m_Set
            bindings == IF set \in DOMAIN bindingMap THEN bindingMap[set] ELSE <<>>
            entry == IF resource.m_Binding \in DOMAIN bindings
                     THEN [bindings[resource.m_Binding] EXCEPT !.m_ApplicableShaders = type]
                     ELSE [m_Type |-> resource.m_Type, m_ApplicableShaders |-> type]
            newBindings == [b \in DOMAIN bindings \cup {resource.m_Binding} |->
                               IF b = resource.m_Binding THEN entry ELSE bindings[b]]
            newMap == [d \in DOMAIN bindingMap \cup {set} |->
                          IF d = set THEN newBindings ELSE bindingMap[d]]
        IN ResourceLoop_Overwrite(resources, i + 1, newMap, type)

\* The resource part of GetShaderBindings, lines 43-57, from resource i on.
RECURSIVE ResourceLoop(_, _, _, _)
ResourceLoop(resources, i, bindingMap, type) ==
    IF i > Len(resources) THEN bindingMap
    ELSE
        LET resource == resources[i]
            set == resource.m_Set
            bindings == IF set \in DOMAIN bindingMap THEN bindingMap[set] ELSE <<>>
            entry == IF resource.m_Binding \in DOMAIN bindings
                     THEN [bindings[resource.m_Binding] EXCEPT
                              !.m_ApplicableShaders = BitOr(@, type)]
                     ELSE [m_Type |-> resource.m_Type, m_ApplicableShaders |-> type]
            newBindings == [b \in DOMAIN bindings \cup {resource.m_Binding} |->
                               IF b = resource.m_Binding THEN entry ELSE bindings[b]]
            newMap == [d \in DOMAIN bindingMap \cup {set} |->
                          IF d = set THEN newBindings ELSE bindingMap[d]]
        IN ResourceLoop(resources, i + 1, newMap, type)

\* A VkFormat: the number of components, the bits of each and the numeric
\* format.
VkFormat(components, bits, numeric) ==
    [components |-> components, bits |-> bits, numeric |-> numeric]

VK_FORMAT_UNDEFINED == VkFormat(0, 0, "UNDEFINED")
VK_FORMAT_R32_UINT == VkFormat(1, 32, "UINT")
VK_FORMAT_R32G32B32_SFLOAT == VkFormat(3, 32, "SFLOAT")

\* One input attribute of the vertex shader, lines 74-105.
InputAttribute(input) ==
    LET element == input.m_Location
        instanceFormat == IF element = "InstanceID" THEN VK_FORMAT_R32_UINT
                          ELSE VK_FORMAT_R32G32B32_SFLOAT
    IN [binding  |-> IF IsVertexElement(element) THEN 0 ELSE 1,
        location |-> input.m_Location,
        format   |-> IF element \in InstanceElements THEN instanceFormat
                     ELSE VK_FORMAT_UNDEFINED,
        offset   |-> IF element \in InstanceElements THEN InstanceEntryOffset[element]
                     ELSE 0]

\* A faulty variant of GetShaderBindings: the inputs of every stage are taken.
GetShaderBindings_AnyStage(shader, out, type) ==
    LET bindingMap == ResourceLoop(shader.m_Resources, 1, out.bindingMap, type)
        attributes == [i \in 1..Len(shader.m_InputAttributes) |->
                          InputAttribute(shader.m_InputAttributes[i])]
        hasInstanceInputs == \E i \in 1..Len(attributes) : attributes[i].binding = 1
        instanceBinding == [binding |-> 1, inputRate |-> "VK_VERTEX_INPUT_RATE_INSTANCE",
                            stride |-> InstanceEntrySize]
    IN [bindingMap |-> bindingMap,
        inputBindingDescriptions |->
            IF hasInstanceInputs
            THEN Append(out.inputBindingDescriptions, instanceBinding)
            ELSE out.inputBindingDescriptions,
        inputAttributeDescriptions |-> out.inputAttributeDescriptions \o attributes]

\* GetShaderBindings, lines 34-117. out holds the three containers the
\* function extends.
GetShaderBindings(shader, out, type) ==
    LET bindingMap == ResourceLoop(shader.m_Resources, 1, out.bindingMap, type)
        isVertex == BitAnd(type, ShaderTypeVertex) # 0
        attributes == [i \in 1..Len(shader.m_InputAttributes) |->
                          InputAttribute(shader.m_InputAttributes[i])]
        hasInstanceInputs == \E i \in 1..Len(attributes) : attributes[i].binding = 1
        instanceBinding == [binding |-> 1, inputRate |-> "VK_VERTEX_INPUT_RATE_INSTANCE",
                            stride |-> InstanceEntrySize]
    IN [bindingMap |-> bindingMap,
        inputBindingDescriptions |->
            IF isVertex /\ hasInstanceInputs
            THEN Append(out.inputBindingDescriptions, instanceBinding)
            ELSE out.inputBindingDescriptions,
        inputAttributeDescriptions |->
            IF isVertex THEN out.inputAttributeDescriptions \o attributes
            ELSE out.inputAttributeDescriptions]

\* m_BindingMap[type] for each of the four sets, lines 856-861: operator[]
\* leaves an empty table for a set no stage declared.
TouchLayouts(bindingMap) ==
    [d \in DescriptorTypes |-> IF d \in DOMAIN bindingMap THEN bindingMap[d] ELSE <<>>]

\* The members the constructor body fills, lines 808-861.
ConstructMembers(specification) ==
    LET empty == [bindingMap |-> <<>>, inputBindingDescriptions |-> <<>>,
                  inputAttributeDescriptions |-> <<>>]
        afterVertex == IF specification.m_VertexShader.isValid
                       THEN GetShaderBindings(specification.m_VertexShader, empty, ShaderTypeVertex)
                       ELSE empty
        afterFragment == IF specification.m_FragmentShader.isValid
                         THEN GetShaderBindings(specification.m_FragmentShader, afterVertex,
                                                ShaderTypeFragment)
                         ELSE afterVertex
    IN [bindingMap |-> TouchLayouts(afterFragment.bindingMap),
        inputBindingDescriptions |-> afterFragment.inputBindingDescriptions,
        inputAttributeDescriptions |-> afterFragment.inputAttributeDescriptions,
        stages |-> (IF specification.m_VertexShader.isValid
                    THEN <<"VK_SHADER_STAGE_VERTEX_BIT">> ELSE <<>>)
                   \o (IF specification.m_FragmentShader.isValid
                       THEN <<"VK_SHADER_STAGE_FRAGMENT_BIT">> ELSE <<>>)]

\* The resources a shader can declare.
ShaderResources ==
    { [m_Binding |-> 0, m_Set |-> "Scene", m_Type |-> "UniformBuffer"],
      [m_Binding |-> 0, m_Set |-> "Scene", m_Type |-> "Sampler"],
      [m_Binding |-> 1, m_Set |-> "Scene", m_Type |-> "UniformBuffer"],
      [m_Binding |-> 0, m_Set |-> "Material", m_Type |-> "UniformBuffer"] }

\* The input lists a vertex shader can declare.
InputLists ==
    { <<>>,
      <<[m_Location |-> "VertexPosition"]>>,
      <<[m_Location |-> "InstanceID"], [m_Location |-> "VertexNormal"],
        [m_Location |-> "VertexPosition"]>> }

\* A shader without a valid SPIR-V binary: nothing was reflected from it.
NoShader == [isValid |-> FALSE, m_Resources |-> <<>>, m_InputAttributes |-> <<>>]

\* The shaders a pipeline is built from: NoShader, or a valid binary with the
\* resources and inputs reflected from it.
VertexShaders ==
    {NoShader} \cup
    [isValid : {TRUE}, m_Resources : SeqsUpTo(ShaderResources, MaxResources),
     m_InputAttributes : InputLists]

FragmentShaders ==
    {NoShader} \cup
    [isValid : {TRUE}, m_Resources : SeqsUpTo(ShaderResources, MaxResources),
     m_InputAttributes : {<<>>, <<[m_Location |-> "VertexPosition"]>>}]

NoSpecification == [m_VertexShader |-> NoShader, m_FragmentShader |-> NoShader]

\* A faulty variant of GetElementFormat: sixteen components get a format too.
GetElementFormat_SixteenComponents(componentCount, dataType) ==
    IF componentCount = 16 THEN VkFormat(4, 32, "SFLOAT")
    ELSE IF componentCount \in 1..4 /\ dataType = "Float"
         THEN VkFormat(componentCount, 32, "SFLOAT")
         ELSE VK_FORMAT_UNDEFINED

\* GetElementFormat, lines 651-796.
GetElementFormat(componentCount, dataType) ==
    LET bits == [Uint8 |-> 8, Uint16 |-> 16, Uint32 |-> 32, Uint64 |-> 64,
                 Int8 |-> 8, Int16 |-> 16, Int32 |-> 32, Int64 |-> 64, Float |-> 32]
        numeric == IF dataType = "Float" THEN "SFLOAT"
                   ELSE IF dataType \in {"Uint8", "Uint16", "Uint32", "Uint64"} THEN "UINT"
                   ELSE "SINT"
    IN IF componentCount \in 1..4 /\ dataType \in DOMAIN bits
       THEN IF componentCount = 4 /\ dataType = "Uint8" THEN VkFormat(4, 8, "UNORM")
            ELSE IF componentCount = 4 /\ dataType = "Int8" THEN VkFormat(4, 8, "SNORM")
            ELSE VkFormat(componentCount, bits[dataType], numeric)
       ELSE VK_FORMAT_UNDEFINED

\* GetAttributeDataTypeComponentCount.
GetAttributeDataTypeComponentCount(attributeDataType) ==
    [Scalar |-> 1, Vec2 |-> 2, Vec3 |-> 3, Vec4 |-> 4, Mat4 |-> 16][attributeDataType]

\* The vertex layouts getPipeline is called with: the elements with their
\* offset and types, the size of one vertex, and the value of generateHash().
VertexSpecifications ==
    { [m_Elements |-> <<>>, m_Size |-> 0, m_Hash |-> U64(0, 0, 0, 0)],
      [m_Elements |-> [VertexPosition |->
                          [m_Offset |-> 0, m_AttributeDataType |-> "Vec3",
                           m_ComponentDataType |-> "Float"]],
       m_Size |-> 12, m_Hash |-> U64(0, 0, 0, 1)],
      [m_Elements |-> [VertexNormal |->
                          [m_Offset |-> 0, m_AttributeDataType |-> "Mat4",
                           m_ComponentDataType |-> "Float"],
                       VertexPosition |->
                          [m_Offset |-> 64, m_AttributeDataType |-> "Vec4",
                           m_ComponentDataType |-> "Uint8"]],
       m_Size |-> 68, m_Hash |-> U64(65535, 0, 0, 2)] }

generateHash(vertexSpecification) == vertexSpecification.m_Hash
isAvailable(vertexSpecification, element) == element \in DOMAIN vertexSpecification.m_Elements
offsetOf(vertexSpecification, element) == vertexSpecification.m_Elements[element].m_Offset

\* a ^ b on naturals.
RECURSIVE BitXor(_, _)
BitXor(a, b) ==
    IF a = 0 THEN b
    ELSE IF b = 0 THEN a
    ELSE ((a + b) % 2) + 2 * BitXor(a \div 2, b \div 2)

g_MagicNumber == U64(31974, 45988, 35831, 58033)

\* A faulty variant of CacheKey: the hash is handed to the handler as it is.
CacheKey_NoXor(hash) == hash

\* hash ^ g_MagicNumber, lines 983 and 1025.
CacheKey(hash) == [i \in 1..4 |-> BitXor(hash[i], g_MagicNumber[i])]

VK_NULL_HANDLE == 0

\* A PipelineStorage as operator[] inserts it, line 899.
NewPipelineStorage ==
    [m_PipelineCache |-> VK_NULL_HANDLE, m_Pipeline |-> VK_NULL_HANDLE,
     m_InputBindingDescriptions |-> <<>>, m_InputAttributeDescriptions |-> <<>>]

\* A faulty variant of ResolveAttribute: the format is not taken from the layout.
ResolveAttribute_KeepsFormat(attribute, vertexSpecification) ==
    IF attribute.binding # 1 /\ isAvailable(vertexSpecification, attribute.location)
    THEN [attribute EXCEPT !.offset = offsetOf(vertexSpecification, attribute.location)]
    ELSE attribute

\* The attribute loop of getPipeline, lines 908-926.
ResolveAttribute(attribute, vertexSpecification) ==
    IF attribute.binding # 1 /\ isAvailable(vertexSpecification, attribute.location)
    THEN [attribute EXCEPT
             !.offset = offsetOf(vertexSpecification, attribute.location),
             !.format = GetElementFormat(
                 GetAttributeDataTypeComponentCount(
                     vertexSpecification.m_Elements[attribute.location].m_AttributeDataType),
                 vertexSpecification.m_Elements[attribute.location].m_ComponentDataType)]
    ELSE attribute

\* The orders std::ranges::sort by offset can leave a sequence in, line 929:
\* the order of attributes with equal offsets is not specified.
SortedByOffset(attributes) ==
    {sorted \in [1..Len(attributes) -> Range(attributes)] :
        /\ \A a \in Range(attributes) :
              Cardinality({i \in 1..Len(attributes) : sorted[i] = a})
                  = Cardinality({i \in 1..Len(attributes) : attributes[i] = a})
        /\ \A i \in 1..Len(attributes) - 1 : sorted[i].offset <= sorted[i + 1].offset}

\* A faulty variant of SetupInputs: the per-vertex binding is always added.
SetupInputs_AlwaysBinds(vertexSpecification, inputBindings, inputAttributes) ==
    LET attributes == [i \in 1..Len(inputAttributes) |->
                          ResolveAttribute(inputAttributes[i], vertexSpecification)]
        vertexBinding == [binding |-> 0, inputRate |-> "VK_VERTEX_INPUT_RATE_VERTEX",
                          stride |-> vertexSpecification.m_Size]
    IN [m_InputBindingDescriptions |-> Append(inputBindings, vertexBinding),
        m_InputAttributeDescriptions |-> attributes]

\* The inputs of a variant before they are sorted, lines 905-926 and 931-938.
SetupInputs(vertexSpecification, inputBindings, inputAttributes) ==
    LET attributes == [i \in 1..Len(inputAttributes) |->
                          ResolveAttribute(inputAttributes[i], vertexSpecification)]
        hasVertexData == \E i \in 1..Len(inputAttributes) :
                             /\ inputAttributes[i].binding # 1
                             /\ isAvailable(vertexSpecification, inputAttributes[i].location)
        vertexBinding == [binding |-> 0, inputRate |-> "VK_VERTEX_INPUT_RATE_VERTEX",
                          stride |-> vertexSpecification.m_Size]
    IN [m_InputBindingDescriptions |->
            IF hasVertexData THEN Append(inputBindings, vertexBinding) ELSE inputBindings,
        m_InputAttributeDescriptions |-> attributes]

\* No pipeline object exists.
CtorInit ==
    /\ constructed = FALSE
    /\ m_Specification = NoSpecification
    /\ m_pCacheHandler = "null"
    /\ m_BindingMap = <<>>
    /\ m_VertexInputBindings = <<>>
    /\ m_VertexInputAttributes = <<>>
    /\ m_ShaderStageCreateInfo = <<>>

CtorIdle == CtorInit

\* VulkanRasterizingPipeline::VulkanRasterizingPipeline, lines 803-868.
Construct(pCacheHandler, specification) ==
    /\ UNCHANGED otherThanCtor
    /\ ~constructed
    /\ constructed' = TRUE
    /\ m_Specification' = specification
    /\ m_pCacheHandler' = pCacheHandler
    /\ LET members == ConstructMembers(specification)
       IN /\ m_BindingMap' = members.bindingMap
          /\ m_VertexInputBindings' = members.inputBindingDescriptions
          /\ m_VertexInputAttributes' = members.inputAttributeDescriptions
          /\ m_ShaderStageCreateInfo' = members.stages

\* VulkanRasterizingPipeline::~VulkanRasterizingPipeline of a pipeline that
\* compiled no variant, lines 870-882.
DestructUnused ==
    /\ UNCHANGED otherThanCtor
    /\ constructed
    /\ constructed' = FALSE
    /\ m_Specification' = NoSpecification
    /\ m_pCacheHandler' = "null"
    /\ m_BindingMap' = <<>>
    /\ m_VertexInputBindings' = <<>>
    /\ m_VertexInputAttributes' = <<>>
    /\ m_ShaderStageCreateInfo' = <<>>

CtorNext ==
    \/ ~constructed /\
          \E pCacheHandler \in {"null", "handler"}, vs \in VertexShaders, fs \in FragmentShaders :
              Construct(pCacheHandler, [m_VertexShader |-> vs, m_FragmentShader |-> fs])
    \/ DestructUnused

-----------------------------------------------------------------------------
(* The compile of a variant as a function of the shader inputs, the vertex *)
(* layout and the build                                                    *)

\* std::ranges::sort does not say in which order it leaves elements that
\* compare equal; a build of the program leaves them in one order, every time.
\* The builds told apart here keep such elements in their order or reverse it.
TieOrders == {"kept", "reversed"}

\* The sort of line 929 puts attribute a into the sorted sequence.
RECURSIVE InsertByOffset(_, _, _)
InsertByOffset(a, sorted, ties) ==
    IF sorted = <<>> THEN <<a>>
    ELSE IF a.offset < Head(sorted).offset \/ (ties = "reversed" /\ a.offset = Head(sorted).offset)
         THEN <<a>> \o sorted
         ELSE <<Head(sorted)>> \o InsertByOffset(a, Tail(sorted), ties)

\* A faulty variant of SortByOffset: the tie order changes from call to call.
RECURSIVE SortByOffset_Alternating(_, _)
SortByOffset_Alternating(attributes, ties) ==
    IF attributes = <<>> THEN <<>>
    ELSE InsertByOffset(Last(attributes),
                        SortByOffset_Alternating(SubSeq(attributes, 1, Len(attributes) - 1), ties),
                        IF Len(compiles) % 2 = 0 THEN "kept" ELSE "reversed")

\* XENON_RANGES(sort, ..., lhs.offset < rhs.offset), line 929, in one build.
RECURSIVE SortByOffset(_, _)
SortByOffset(attributes, ties) ==
    IF attributes = <<>> THEN <<>>
    ELSE InsertByOffset(Last(attributes),
                        SortByOffset(SubSeq(attributes, 1, Len(attributes) - 1), ties),
                        ties)

\* The inputs the vertex shader of a compiled pipeline declares.
CompileInputs ==
    { <<[m_Location |-> "VertexPosition"]>>,
      <<[m_Location |-> "InstancePosition"], [m_Location |-> "VertexPosition"]>>,
      <<[m_Location |-> "InstanceID"], [m_Location |-> "VertexNormal"],
        [m_Location |-> "VertexPosition"]>> }

CompileIdle ==
    /\ tieOrder = "kept"
    /\ compiles = <<>>

\* A run of some build in which nothing was compiled yet.
CompileInit ==
    /\ tieOrder \in TieOrders
    /\ compiles = <<>>

\* The compile of getPipeline, lines 904-938, for a pipeline object whose
\* vertex shader declares the given inputs (constructor, lines 74-115).
Compile(inputs, vertexSpecification) ==
    /\ UNCHANGED otherThanCompile
    /\ Len(compiles) < MaxCompiles
    /\ LET shader == [isValid |-> TRUE, m_Resources |-> <<>>, m_InputAttributes |-> inputs]
           members == ConstructMembers([m_VertexShader |-> shader, m_FragmentShader |-> NoShader])
           setup == SetupInputs(vertexSpecification, members.inputBindingDescriptions,
                                members.inputAttributeDescriptions)
       IN compiles' = Append(compiles,
              [inputs |-> inputs, vertexSpecification |-> vertexSpecification,
               m_InputBindingDescriptions |-> setup.m_InputBindingDescriptions,
               m_InputAttributeDescriptions |->
                   SortByOffset(setup.m_InputAttributeDescriptions, tieOrder)])
    /\ UNCHANGED tieOrder

CompileNext ==
    \E inputs \in CompileInputs, vertexSpecification \in VertexSpecifications :
        Compile(inputs, vertexSpecification)

-----------------------------------------------------------------------------
(* VulkanRasterizingPipeline: getPipeline and recreate                     *)

Threads == {"t1", "t2"}

\* What vkCreatePipelineCache and vkCreateGraphicsPipelines return.
VkResults == {"VK_SUCCESS", "VK_ERROR_UNKNOWN", "VK_ERROR_OUT_OF_HOST_MEMORY"}

\* What vkGetPipelineCacheData hands back: bytes only the driver understands.
CacheData == {<<1>>, <<2>>}

IdleThread ==
    [pc |-> "idle", op |-> "none", vertexSpecification |-> <<>>, hash |-> <<>>,
     found |-> FALSE, keys |-> {}, visited |-> {}, before |-> <<>>]

NoDevice == [nextHandle |-> 1, pipelines |-> {}, caches |-> {}, destroyed |-> {}]

\* The variant-map part of a pipeline object no call was made on.
VariantIdle ==
    /\ m_Pipelines = <<>>
    /\ m_Mutex = "free"
    /\ threads = [t \in Threads |-> IdleThread]
    /\ device = NoDevice
    /\ callLog = [t \in Threads |-> <<>>]
    /\ lastReturn = [t \in Threads |-> <<>>]
    /\ requested = {}
    /\ pipeCalls = 0
    /\ pipeAborted = FALSE

\* The pipelines getPipeline and recreate are called on.
PipelineSpecifications ==
    { [m_VertexShader |->
          [isValid |-> TRUE,
           m_Resources |-> <<[m_Binding |-> 0, m_Set |-> "Scene", m_Type |-> "UniformBuffer"]>>,
           m_InputAttributes |-> <<[m_Location |-> "InstanceID"],
                                   [m_Location |-> "VertexNormal"],
                                   [m_Location |-> "VertexPosition"]>>],
       m_FragmentShader |->
          [isValid |-> TRUE,
           m_Resources |-> <<[m_Binding |-> 0, m_Set |-> "Scene", m_Type |-> "UniformBuffer"]>>,
           m_InputAttributes |-> <<>>]],
      [m_VertexShader |->
          [isValid |-> TRUE, m_Resources |-> <<>>,
           m_InputAttributes |-> <<[m_Location |-> "VertexPosition"]>>],
       m_FragmentShader |-> NoShader] }

\* What an earlier run of the program left in the working directory: nothing,
\* or the blobs it stored for the first two vertex layouts.
EarlierStores ==
    { <<>>,
      (CacheKey(U64(0, 0, 0, 0)) :> <<1>>) @@ (CacheKey(U64(0, 0, 0, 1)) :> <<2>>) }

RECURSIVE StoreAll(_, _)
StoreAll(fs, blobs) ==
    IF DOMAIN blobs = {} THEN fs
    ELSE LET key == CHOOSE k \in DOMAIN blobs : TRUE
         IN StoreAll(DefaultStore(fs, key, blobs[key]),
                     [k \in DOMAIN blobs \ {key} |-> blobs[k]])

\* The cache files when the pipeline object is constructed.
PipeCacheInit ==
    /\ stored \in EarlierStores
    /\ files = StoreAll(<<>>, stored)
    /\ lastLoad = NoLoad

\* A constructed pipeline object no call was made on yet.
PipeInit ==
    /\ VariantIdle
    /\ constructed = TRUE
    /\ m_Specification \in PipelineSpecifications
    /\ m_pCacheHandler \in {"null", "handler"}
    /\ m_BindingMap = ConstructMembers(m_Specification).bindingMap
    /\ m_VertexInputBindings = ConstructMembers(m_Specification).inputBindingDescriptions
    /\ m_VertexInputAttributes = ConstructMembers(m_Specification).inputAttributeDescriptions
    /\ m_ShaderStageCreateInfo = ConstructMembers(m_Specification).stages

\* The hash of the variant thread t works on.
Current(t) == threads[t].hash

Log(t, events) == callLog' = [callLog EXCEPT ![t] = @ \o events]

\* getPipeline, line 894: the hash is taken before the lock. maxCalls caps the
\* number of calls of a run.
GetPipelineCall(t, vertexSpecification, maxCalls) ==
    /\ UNCHANGED otherThanVariants
    /\ UNCHANGED cacheVars
    /\ ~pipeAborted
    /\ pipeCalls < maxCalls
    /\ threads[t].pc = "idle"
    /\ threads' = [threads EXCEPT ![t] =
           [IdleThread EXCEPT !.pc = "lock", !.op = "getPipeline",
                              !.vertexSpecification = vertexSpecification,
                              !.hash = generateHash(vertexSpecification)]]
    /\ callLog' = [callLog EXCEPT ![t] = <<>>]
    /\ requested' = requested \cup {generateHash(vertexSpecification)}
    /\ pipeCalls' = pipeCalls + 1
    /\ UNCHANGED <<m_Pipelines, m_Mutex, device, lastReturn, pipeAborted>>

\* std::scoped_lock(m_Mutex), line 896.
GetPipelineLock(t) ==
    /\ UNCHANGED otherThanVariants
    /\ UNCHANGED cacheVars
    /\ ~pipeAborted
    /\ threads[t].pc = "lock"
    /\ m_Mutex = "free"
    /\ m_Mutex' = t
    /\ threads' = [threads EXCEPT ![t].pc = "contains"]
    /\ UNCHANGED <<m_Pipelines, device, callLog, lastReturn, requested, pipeCalls, pipeAborted>>

\* A faulty variant of GetPipelineContains: a hash is never found in the map.
GetPipelineContains_NeverFound(t) ==
    /\ UNCHANGED otherThanVariants
    /\ UNCHANGED cacheVars
    /\ ~pipeAborted
    /\ threads[t].pc = "contains"
    /\ threads' = [threads EXCEPT ![t].pc = "load", ![t].found = FALSE,
                                  ![t].before = m_Pipelines]
    /\ m_Pipelines' = [h \in DOMAIN m_Pipelines \cup {Current(t)} |->
                          IF h \in DOMAIN m_Pipelines THEN m_Pipelines[h]
                          ELSE NewPipelineStorage]
    /\ UNCHANGED <<m_Mutex, device, callLog, lastReturn, requested, pipeCalls, pipeAborted>>

\* A faulty variant of GetPipelineContains: a new variant goes straight to
\* the cache store.
GetPipelineContains_StoresFirst(t) ==
    /\ UNCHANGED otherThanVariants
    /\ UNCHANGED cacheVars
    /\ ~pipeAborted
    /\ threads[t].pc = "contains"
    /\ IF Current(t) \in DOMAIN m_Pipelines
       THEN /\ threads' = [threads EXCEPT ![t].pc = "return", ![t].found = TRUE,
                                          ![t].before = m_Pipelines]
            /\ UNCHANGED m_Pipelines
       ELSE /\ threads' = [threads EXCEPT ![t].pc = "save", ![t].found = FALSE,
                                          ![t].before = m_Pipelines]
            /\ m_Pipelines' = [h \in DOMAIN m_Pipelines \cup {Current(t)} |->
                                  IF h = Current(t) THEN NewPipelineStorage ELSE m_Pipelines[h]]
    /\ UNCHANGED <<m_Mutex, device, callLog, lastReturn, requested, pipeCalls, pipeAborted>>

\* m_Pipelines.contains(hash) and m_Pipelines[hash], lines 897-899.
GetPipelineContains(t) ==
    /\ UNCHANGED otherThanVariants
    /\ UNCHANGED cacheVars
    /\ ~pipeAborted
    /\ threads[t].pc = "contains"
    /\ IF Current(t) \in DOMAIN m_Pipelines
       THEN /\ threads' = [threads EXCEPT ![t].pc = "return", ![t].found = TRUE,
                                          ![t].before = m_Pipelines]
            /\ UNCHANGED m_Pipelines
       ELSE /\ threads' = [threads EXCEPT ![t].pc = "load", ![t].found = FALSE,
                                          ![t].before = m_Pipelines]
            /\ m_Pipelines' = [h \in DOMAIN m_Pipelines \cup {Current(t)} |->
                                  IF h = Current(t) THEN NewPipelineStorage ELSE m_Pipelines[h]]
    /\ UNCHANGED <<m_Mutex, device, callLog, lastReturn, requested, pipeCalls, pipeAborted>>

\* A faulty variant of HasCacheHandler: the handler is used without the test.
HasCacheHandler_Unchecked == TRUE

\* if (m_pCacheHandler), line 982.
HasCacheHandler == m_pCacheHandler # "null"

\* A faulty variant of RetryInitialData: the retry passes the loaded data again.
RetryInitialData_KeepsData(cacheData) == cacheData

\* loadPipelineCache, lines 1001-1002: the second attempt is made with
\* initialDataSize 0 and a null pInitialData.
RetryInitialData(cacheData) == <<>>

\* loadPipelineCache, lines 977-1011, then the inputs of the variant, lines
\* 904-938. first and second are the results of the two attempts of
\* vkCreatePipelineCache; the second is made after VK_ERROR_UNKNOWN only.
LoadPipelineCache(t, first, second) ==
    /\ UNCHANGED otherThanVariants
    /\ ~pipeAborted
    /\ threads[t].pc = "load"
    /\ first # "VK_ERROR_UNKNOWN" => second = "VK_SUCCESS"
    /\ LET hasHandler == HasCacheHandler
           cacheData == IF hasHandler THEN DefaultLoad(files, CacheKey(Current(t))) ELSE <<>>
           loadEvents == IF hasHandler
                         THEN <<[event |-> "load", key |-> CacheKey(Current(t))]>> ELSE <<>>
           firstEvent == [event |-> "vkCreatePipelineCache", initialData |-> cacheData,
                          result |-> first]
           secondEvent == [event |-> "vkCreatePipelineCache",
                           initialData |-> RetryInitialData(cacheData),
                           result |-> second]
           createEvents == IF first = "VK_ERROR_UNKNOWN" THEN <<firstEvent, secondEvent>>
                           ELSE <<firstEvent>>
           result == IF first = "VK_ERROR_UNKNOWN" THEN second ELSE first
           inputs == SetupInputs(threads[t].vertexSpecification, m_VertexInputBindings,
                                 m_VertexInputAttributes)
       IN /\ Log(t, loadEvents \o createEvents)
          /\ lastLoad' = IF hasHandler
                         THEN [hash |-> CacheKey(Current(t)), bytes |-> cacheData, called |-> TRUE]
                         ELSE lastLoad
          /\ IF result = "VK_SUCCESS"
             THEN /\ \E sorted \in SortedByOffset(inputs.m_InputAttributeDescriptions) :
                        m_Pipelines' = [m_Pipelines EXCEPT ![Current(t)] =
                            [@ EXCEPT !.m_PipelineCache = device.nextHandle,
                                      !.m_InputBindingDescriptions =
                                          inputs.m_InputBindingDescriptions,
                                      !.m_InputAttributeDescriptions = sorted]]
                  /\ device' = [device EXCEPT !.nextHandle = @ + 1,
                                              !.caches = @ \cup {device.nextHandle}]
                  /\ threads' = [threads EXCEPT ![t].pc = "create"]
                  /\ UNCHANGED pipeAborted
             ELSE /\ pipeAborted' = TRUE
                  /\ UNCHANGED <<m_Pipelines, device, threads>>
    /\ UNCHANGED <<files, stored, m_Mutex, lastReturn, requested, pipeCalls>>

\* A faulty variant of CreatePipelineBegin: the previous backend pipeline
\* object is left alive.
CreatePipelineBegin_KeepsOld(t) ==
    /\ UNCHANGED otherThanVariants
    /\ UNCHANGED cacheVars
    /\ ~pipeAborted
    /\ threads[t].pc = "create"
    /\ Current(t) \in DOMAIN m_Pipelines
    /\ threads' = [threads EXCEPT ![t].pc = "creating"]
    /\ UNCHANGED <<m_Pipelines, m_Mutex, device, callLog, lastReturn, requested, pipeCalls,
                   pipeAborted>>

\* createPipeline up to the call of vkCreateGraphicsPipelines, lines
\* 1147-1181: the previous backend pipeline object, if any, is destroyed.
CreatePipelineBegin(t) ==
    /\ UNCHANGED otherThanVariants
    /\ UNCHANGED cacheVars
    /\ ~pipeAborted
    /\ threads[t].pc = "create"
    /\ Current(t) \in DOMAIN m_Pipelines
    /\ LET old == m_Pipelines[Current(t)].m_Pipeline
       IN IF old # VK_NULL_HANDLE
          THEN /\ device' = [device EXCEPT !.pipelines = @ \ {old},
                                           !.destroyed = @ \cup {old}]
               /\ Log(t, <<[event |-> "vkDestroyPipeline", handle |-> old]>>)
          ELSE UNCHANGED <<device, callLog>>
    /\ threads' = [threads EXCEPT ![t].pc = "creating"]
    /\ UNCHANGED <<m_Pipelines, m_Mutex, lastReturn, requested, pipeCalls, pipeAborted>>

\* vkCreateGraphicsPipelines returns, line 1181.
CreatePipelineReturn(t, result) ==
    /\ UNCHANGED otherThanVariants
    /\ UNCHANGED cacheVars
    /\ ~pipeAborted
    /\ threads[t].pc = "creating"
    /\ Log(t, <<[event |-> "vkCreateGraphicsPipelines",
                 pipelineCache |-> m_Pipelines[Current(t)].m_PipelineCache,
                 result |-> result]>>)
    /\ IF result = "VK_SUCCESS"
       THEN /\ m_Pipelines' = [m_Pipelines EXCEPT ![Current(t)].m_Pipeline = device.nextHandle]
            /\ device' = [device EXCEPT !.nextHandle = @ + 1,
                                        !.pipelines = @ \cup {device.nextHandle}]
            /\ threads' = [threads EXCEPT ![t].pc = "save"]
            /\ UNCHANGED pipeAborted
       ELSE /\ pipeAborted' = TRUE
            /\ UNCHANGED <<m_Pipelines, device, threads>>
    /\ UNCHANGED <<m_Mutex, lastReturn, requested, pipeCalls>>

\* savePipelineCache, lines 1013-1031. cacheData is what the driver returns
\* for the cache object of the variant.
SavePipelineCache(t, cacheData) ==
    /\ UNCHANGED otherThanVariants
    /\ ~pipeAborted
    /\ threads[t].pc = "save"
    /\ IF m_pCacheHandler # "null"
       THEN /\ files' = DefaultStore(files, CacheKey(Current(t)), cacheData)
            /\ stored' = [h \in DOMAIN stored \cup {CacheKey(Current(t))} |->
                             IF h = CacheKey(Current(t)) THEN cacheData ELSE stored[h]]
            /\ Log(t, <<[event |-> "store", key |-> CacheKey(Current(t)),
                         bytes |-> cacheData]>>)
       ELSE /\ cacheData = <<1>>
            /\ UNCHANGED <<files, stored, callLog>>
    /\ threads' = [threads EXCEPT ![t].pc =
                      IF threads[t].op = "getPipeline" THEN "return" ELSE "iterate"]
    /\ UNCHANGED <<lastLoad, m_Pipelines, m_Mutex, device, lastReturn, requested, pipeCalls,
                   pipeAborted>>

\* return m_Pipelines[hash], line 947, and the end of the lock's scope.
GetPipelineReturn(t) ==
    /\ UNCHANGED otherThanVariants
    /\ UNCHANGED cacheVars
    /\ ~pipeAborted
    /\ threads[t].pc = "return"
    /\ lastReturn' = [lastReturn EXCEPT ![t] = m_Pipelines[Current(t)]]
    /\ m_Mutex' = "free"
    /\ threads' = [threads EXCEPT ![t].pc = "idle"]
    /\ UNCHANGED <<m_Pipelines, device, callLog, requested, pipeCalls, pipeAborted>>

\* recreate is entered, line 950: m_Pipelines.begin().
RecreateCall(t, maxCalls) ==
    /\ UNCHANGED otherThanVariants
    /\ UNCHANGED cacheVars
    /\ ~pipeAborted
    /\ pipeCalls < maxCalls
    /\ threads[t].pc = "idle"
    /\ threads' = [threads EXCEPT ![t] =
           [IdleThread EXCEPT !.pc = "iterate", !.op = "recreate",
                              !.keys = DOMAIN m_Pipelines, !.before = m_Pipelines]]
    /\ callLog' = [callLog EXCEPT ![t] = <<>>]
    /\ pipeCalls' = pipeCalls + 1
    /\ UNCHANGED <<m_Pipelines, m_Mutex, device, lastReturn, requested, pipeAborted>>

\* A faulty variant of RecreateIterate: the loop ends after its first variant.
RecreateIterate_StopsEarly(t) ==
    /\ UNCHANGED otherThanVariants
    /\ UNCHANGED cacheVars
    /\ ~pipeAborted
    /\ threads[t].pc = "iterate"
    /\ DOMAIN m_Pipelines = threads[t].keys
    /\ IF threads[t].keys = threads[t].visited \/ threads[t].visited # {}
       THEN threads' = [threads EXCEPT ![t].pc = "idle"]
       ELSE \E hash \in threads[t].keys \ threads[t].visited :
               threads' = [threads EXCEPT ![t].pc = "create", ![t].hash = hash,
                                          ![t].visited = @ \cup {hash}]
    /\ UNCHANGED <<m_Pipelines, m_Mutex, device, callLog, lastReturn, requested, pipeCalls,
                   pipeAborted>>

\* The loop of recreate moves to the next variant, line 954, in the order the
\* unordered map keeps them, or recreate returns.
RecreateIterate(t) ==
    /\ UNCHANGED otherThanVariants
    /\ UNCHANGED cacheVars
    /\ ~pipeAborted
    /\ threads[t].pc = "iterate"
    /\ DOMAIN m_Pipelines = threads[t].keys
    /\ IF threads[t].keys = threads[t].visited
       THEN threads' = [threads EXCEPT ![t].pc = "idle"]
       ELSE \E hash \in threads[t].keys \ threads[t].visited :
               threads' = [threads EXCEPT ![t].pc = "create", ![t].hash = hash,
                                          ![t].visited = @ \cup {hash}]
    /\ UNCHANGED <<m_Pipelines, m_Mutex, device, callLog, lastReturn, requested, pipeCalls,
                   pipeAborted>>

\* The loop of recreate moves on after another thread inserted into the map:
\* the iterator may have been invalidated by a rehash, so the loop goes on
\* with any variant it has not visited, ends early, or the process dies.
RecreateIterateInvalidated(t) ==
    /\ UNCHANGED otherThanVariants
    /\ UNCHANGED cacheVars
    /\ ~pipeAborted
    /\ threads[t].pc = "iterate"
    /\ DOMAIN m_Pipelines # threads[t].keys
    /\ \/ /\ threads' = [threads EXCEPT ![t].pc = "idle"]
          /\ UNCHANGED pipeAborted
       \/ /\ \E hash \in DOMAIN m_Pipelines \ threads[t].visited :
                threads' = [threads EXCEPT ![t].pc = "create", ![t].hash = hash,
                                           ![t].visited = @ \cup {hash}]
          /\ UNCHANGED pipeAborted
       \/ /\ pipeAborted' = TRUE
          /\ UNCHANGED threads
    /\ UNCHANGED <<m_Pipelines, m_Mutex, device, callLog, lastReturn, requested, pipeCalls>>

\* The steps of a call thread t is in.
VariantStep(t) ==
    \/ GetPipelineLock(t)
    \/ GetPipelineContains(t)
    \/ \E first, second \in VkResults : LoadPipelineCache(t, first, second)
    \/ CreatePipelineBegin(t)
    \/ \E result \in VkResults \ {"VK_ERROR_UNKNOWN"} : CreatePipelineReturn(t, result)
    \/ \E cacheData \in CacheData : SavePipelineCache(t, cacheData)
    \/ GetPipelineReturn(t)
    \/ RecreateIterate(t)

\* One thread calls getPipeline and recreate, one call after the other.
PipelineNext ==
    \/ \E vertexSpecification \in VertexSpecifications :
          GetPipelineCall("t1", vertexSpecification, MaxPipeCalls)
    \/ RecreateCall("t1", MaxPipeCalls)
    \/ VariantStep("t1")

\* The threads call getPipeline and recreate at any time.
PipelineThreadsNext ==
    \E t \in Threads :
        \/ \E vertexSpecification \in VertexSpecifications :
              GetPipelineCall(t, vertexSpecification, MaxThreadCalls)
        \/ RecreateCall(t, MaxThreadCalls)
        \/ VariantStep(t)
        \/ RecreateIterateInvalidated(t)

-----------------------------------------------------------------------------
(* Scene: the update lock, createMaterial and the light-source buffer      *)

\* The host threads: "main" makes the lifecycle calls (beginUpdate, endUpdate,
\* cleanup) and, like "worker", creates materials.
SceneThreads == {"main", "worker"}

\* XENON_MAX_LIGHT_SOURCE_COUNT. Its definition is not part of the sources at
\* hand; the model takes a small value.
MaxLightSourceCount == 2

\* sizeof(Components::LightSource), taken from the shader-side structure: a
\* float4, two float3 and two floats.
LightSourceSize == 48

\* How many light sources more than XENON_MAX_LIGHT_SOURCE_COUNT the client
\* code puts into the registry at most.
MaxExtraLights == 1

\* The calls on the scene of one run.
MaxSceneCalls == 5

\* A null m_pLightSourceUniform.
NullUniform == [null |-> TRUE, size |-> 0, written |-> 0]

NoSceneHistory ==
    [lifecycle |-> "constructor", unlockedNotHeld |-> FALSE, lockedHeld |-> FALSE,
     insertedUnderSceneLock |-> FALSE]

\* Scene::Scene, lines 13-32: m_UniqueLock locks the mutex on construction,
\* the two uniform buffers are created, and line 31 unlocks.
SceneInit ==
    /\ sceneMutex = "free"
    /\ m_UniqueLock = FALSE
    /\ sceneThreads = [t \in SceneThreads |-> "idle"]
    /\ m_Registry = [materials |-> 0, lightSources |-> 0]
    /\ m_pLightSourceUniform =
          [null |-> FALSE, size |-> LightSourceSize * MaxLightSourceCount, written |-> 0]
    /\ m_SceneInformation = [m_LightSourceCount |-> 0]
    /\ sceneHistory = NoSceneHistory
    /\ sceneCalls = 0
    /\ sceneCrashed = FALSE

\* No scene exists.
SceneIdle ==
    /\ sceneMutex = "free"
    /\ m_UniqueLock = FALSE
    /\ sceneThreads = [t \in SceneThreads |-> "idle"]
    /\ m_Registry = [materials |-> 0, lightSources |-> 0]
    /\ m_pLightSourceUniform = NullUniform
    /\ m_SceneInformation = [m_LightSourceCount |-> 0]
    /\ sceneHistory = NoSceneHistory
    /\ sceneCalls = 0
    /\ sceneCrashed = FALSE

\* A thread can make a call: it is in no call, and the process is alive.
CanCall(t) ==
    /\ ~sceneCrashed
    /\ sceneThreads[t] = "idle"
    /\ sceneCalls < MaxSceneCalls

\* m_UniqueLock.unlock(): the mutex is released and the lock owns nothing.
\* Releasing a mutex the calling thread does not hold is recorded.
UniqueLockUnlock(lifecycle) ==
    /\ sceneMutex' = "free"
    /\ m_UniqueLock' = FALSE
    /\ sceneHistory' = [sceneHistory EXCEPT
                           !.lifecycle = lifecycle,
                           !.unlockedNotHeld = @ \/ sceneMutex # "main"]

\* Scene::beginUpdate, lines 34-37.
BeginUpdate ==
    /\ UNCHANGED otherThanScene
    /\ CanCall("main")
    /\ IF m_UniqueLock
       THEN UniqueLockUnlock("beginUpdate")
       ELSE /\ sceneHistory' = [sceneHistory EXCEPT !.lifecycle = "beginUpdate"]
            /\ UNCHANGED <<sceneMutex, m_UniqueLock>>
    /\ sceneCalls' = sceneCalls + 1
    /\ UNCHANGED <<sceneThreads, m_Registry, m_pLightSourceUniform, m_SceneInformation,
                   sceneCrashed>>

\* Scene::setupLights, lines 159-168: every light source of the registry is
\* copied and the whole copy written to the light-source buffer.
setupLights(registry) ==
    [copySize |-> registry.lightSources * LightSourceSize,
     m_LightSourceCount |-> registry.lightSources]

\* Scene::endUpdate, lines 39-49: the lock is taken unless the scene's lock
\* owns it already (the call blocks while another thread holds the mutex),
\* then the lights are written. After cleanup() the light-source buffer is
\* null and the write through it ends the process.
EndUpdate ==
    /\ UNCHANGED otherThanScene
    /\ CanCall("main")
    /\ IF m_UniqueLock
       THEN /\ sceneHistory' = [sceneHistory EXCEPT !.lifecycle = "endUpdate"]
            /\ UNCHANGED <<sceneMutex, m_UniqueLock>>
       ELSE /\ sceneMutex # "worker"
            /\ sceneMutex' = "main"
            /\ m_UniqueLock' = TRUE
            /\ sceneHistory' = [sceneHistory EXCEPT
                                   !.lifecycle = "endUpdate",
                                   !.lockedHeld = @ \/ sceneMutex = "main"]
    /\ IF m_pLightSourceUniform.null
       THEN /\ sceneCrashed' = TRUE
            /\ UNCHANGED <<m_pLightSourceUniform, m_SceneInformation>>
       ELSE /\ m_pLightSourceUniform' =
                  [m_pLightSourceUniform EXCEPT !.written = setupLights(m_Registry).copySize]
            /\ m_SceneInformation' =
                  [m_LightSourceCount |-> setupLights(m_Registry).m_LightSourceCount]
            /\ UNCHANGED sceneCrashed
    /\ sceneCalls' = sceneCalls + 1
    /\ UNCHANGED <<sceneThreads, m_Registry>>

\* Scene::cleanup, lines 51-60.
Cleanup ==
    /\ UNCHANGED otherThanScene
    /\ CanCall("main")
    /\ IF m_UniqueLock
       THEN UniqueLockUnlock("cleanup")
       ELSE /\ sceneHistory' = [sceneHistory EXCEPT !.lifecycle = "cleanup"]
            /\ UNCHANGED <<sceneMutex, m_UniqueLock>>
    /\ m_Registry' = [materials |-> 0, lightSources |-> 0]
    /\ m_pLightSourceUniform' = NullUniform
    /\ sceneCalls' = sceneCalls + 1
    /\ UNCHANGED <<sceneThreads, m_SceneInformation, sceneCrashed>>

\* Scene::createMaterial, line 66: std::scoped_lock(m_Mutex) by a thread that
\* does not own the mutex; the call blocks until the mutex is free.
CreateMaterialLock(t) ==
    /\ UNCHANGED otherThanScene
    /\ CanCall(t)
    /\ sceneMutex = "free"
    /\ sceneMutex' = t
    /\ sceneThreads' = [sceneThreads EXCEPT ![t] = "inserting"]
    /\ sceneCalls' = sceneCalls + 1
    /\ UNCHANGED <<m_UniqueLock, m_Registry, m_pLightSourceUniform, m_SceneInformation,
                   sceneHistory, sceneCrashed>>

\* Scene::createMaterial, line 66, called by the thread that holds the mutex
\* through the scene's lock: locking a mutex the thread already owns is
\* undefined. The thread hangs, or the lock raises and the call ends without
\* an insertion, or the lock is granted again.
CreateMaterialRelock(t) ==
    /\ UNCHANGED otherThanScene
    /\ CanCall(t)
    /\ sceneMutex = t
    /\ \/ sceneThreads' = [sceneThreads EXCEPT ![t] = "hung"]
       \/ UNCHANGED sceneThreads
       \/ sceneThreads' = [sceneThreads EXCEPT ![t] = "inserting"]
    /\ sceneCalls' = sceneCalls + 1
    /\ UNCHANGED <<sceneMutex, m_UniqueLock, m_Registry, m_pLightSourceUniform,
                   m_SceneInformation, sceneHistory, sceneCrashed>>

\* Scene::createMaterial, line 67 and the end of the scoped lock: the
\* material is put into the registry and the mutex released.
CreateMaterialInsert(t) ==
    /\ UNCHANGED otherThanScene
    /\ ~sceneCrashed
    /\ sceneThreads[t] = "inserting"
    /\ m_Registry' = [m_Registry EXCEPT !.materials = @ + 1]
    /\ sceneHistory' = [sceneHistory EXCEPT !.insertedUnderSceneLock = @ \/ m_UniqueLock]
    /\ sceneMutex' = "free"
    /\ sceneThreads' = [sceneThreads EXCEPT ![t] = "idle"]
    /\ UNCHANGED <<m_UniqueLock, m_pLightSourceUniform, m_SceneInformation, sceneCalls,
                   sceneCrashed>>

\* The client code puts a light source component into the registry, which
\* setupLights will find at line 161.
EmplaceLightSource ==
    /\ UNCHANGED otherThanScene
    /\ ~sceneCrashed
    /\ sceneThreads["main"] = "idle"
    /\ ~m_UniqueLock
    /\ m_Registry.lightSources < MaxLightSourceCount + MaxExtraLights
    /\ m_Registry' = [m_Registry EXCEPT !.lightSources = @ + 1]
    /\ UNCHANGED <<sceneMutex, m_UniqueLock, sceneThreads, m_pLightSourceUniform,
                   m_SceneInformation, sceneHistory, sceneCalls, sceneCrashed>>

SceneNext ==
    \/ BeginUpdate
    \/ EndUpdate
    \/ Cleanup
    \/ \E t \in SceneThreads : CreateMaterialLock(t)
    \/ \E t \in SceneThreads : CreateMaterialRelock(t)
    \/ \E t \in SceneThreads : CreateMaterialInsert(t)
    \/ EmplaceLightSource

-----------------------------------------------------------------------------
(* Specifications: one per component.                                      *)

SubIdle == SubInit

\* The initial states of each specification: its component as constructed, the
\* other components idle.
SubmitterInit ==
    SubInit /\ BufIdle /\ CacheIdle /\ CtorIdle /\ VariantIdle /\ QueueIdle /\ CompileIdle /\ SceneIdle
BufferInit ==
    BufInit /\ SubIdle /\ CacheIdle /\ CtorIdle /\ VariantIdle /\ QueueIdle /\ CompileIdle /\ SceneIdle
CacheHandlerInit ==
    CacheInit /\ SubIdle /\ BufIdle /\ CtorIdle /\ VariantIdle /\ QueueIdle /\ CompileIdle /\ SceneIdle
BindingsInit ==
    CtorInit /\ SubIdle /\ BufIdle /\ CacheIdle /\ VariantIdle /\ QueueIdle /\ CompileIdle /\ SceneIdle
PipelineInit ==
    PipeInit /\ PipeCacheInit /\ SubIdle /\ BufIdle /\ QueueIdle /\ CompileIdle /\ SceneIdle
QueueThreadsInit ==
    QueueIdle /\ SubIdle /\ BufIdle /\ CacheIdle /\ CtorIdle /\ VariantIdle /\ CompileIdle /\ SceneIdle

SpecSubmitter == SubmitterInit /\ [][SubNext]_vars

SpecBuffer == BufferInit /\ [][BufNext]_vars

SpecCacheHandler == CacheHandlerInit /\ [][CacheNext]_vars

SpecBindings == BindingsInit /\ [][CtorNext]_vars

SpecPipeline == PipelineInit /\ [][PipelineNext]_vars

SpecPipelineThreads == PipelineInit /\ [][PipelineThreadsNext]_vars

SpecQueueThreads == QueueThreadsInit /\ [][QueueThreadsNext]_vars

CompileOnlyInit ==
    /\ CompileInit /\ SubIdle /\ BufIdle /\ CacheIdle /\ CtorIdle /\ VariantIdle /\ QueueIdle
    /\ SceneIdle

SpecCompile == CompileOnlyInit /\ [][CompileNext]_vars

SceneOnlyInit ==
    /\ SceneInit /\ SubIdle /\ BufIdle /\ CacheIdle /\ CtorIdle /\ VariantIdle /\ QueueIdle
    /\ CompileIdle

SpecScene == SceneOnlyInit /\ [][SceneNext]_vars

-----------------------------------------------------------------------------
(* Claims about the command submitter.                                     *)

\* C2: in one submit call, every semaphore signaled by batch i's descriptor
\* is in the wait-semaphore set of batch i+1's descriptor, for every batch
\* list, batches without recorders included.
C2_SignalsChainIntoNextWait ==
    \A i \in 1..(Len(submitInfos) - 1) :
        Range(submitInfos[i].signalSemaphores) \subseteq Range(submitInfos[i + 1].waitSemaphores)

\* C3: in a run where every submit (of any batch list, the empty one
\* included) is followed by wait() before the next submit, the fence is
\* unsignaled and not pending whenever vkQueueSubmit receives it.
C3_FenceUnsignaledAtSubmit ==
    queueLog.afterWait => queueLog.fenceBefore \in {"never", "unsignaled"}

\* C4: a wait() call made while no submission is outstanding (never
\* submitted, or already waited with no submit in between) enters no fence
\* wait, resets nothing and leaves the flag and the fence unchanged.
C4_WaitIdempotent ==
    [][(SubmitterWait /\ waitedSinceSubmit) =>
          /\ subPc' = "idle"
          /\ lastCall'.fenceOps = <<>>
          /\ UNCHANGED <<m_bIsWaiting, m_WaitFence>>]_vars

\* C4 witness: a second wait() right after a wait() that followed a real
\* submission of at least one descriptor.
C4_Witness ==
    /\ lastCall.op = "wait" /\ ~lastCall.outstanding
    /\ queueLog.count > 0
    /\ subPc = "idle"


\* The semaphores a descriptor names.
SemaphoresOf(submitInfo) ==
    Range(submitInfo.waitSemaphores) \cup Range(submitInfo.signalSemaphores)

SwapchainSemaphores == {InFlightSemaphore, RenderFinishedSemaphore}

\* C12: with a renderable swapchain and a non-empty batch list, the first
\* descriptor waits on the swapchain's in-flight semaphore and the last one
\* signals its render-finished semaphore; with no swapchain or a
\* non-renderable one, no descriptor names either swapchain semaphore.
C12_SwapchainWaitAndSignal ==
    [][\A batches \in BatchLists, swapchain \in Swapchains :
         SubmitBuild(batches, swapchain) =>
           IF IsRenderable(swapchain)
           THEN Len(batches) > 0 =>
                  /\ InFlightSemaphore \in Range(submitInfos'[1].waitSemaphores)
                  /\ RenderFinishedSemaphore \in Range(Last(submitInfos').signalSemaphores)
           ELSE \A i \in 1..Len(submitInfos') :
                  SemaphoresOf(submitInfos'[i]) \cap SwapchainSemaphores = {}]_vars

\* C13: the descriptors of one submit() with N >= 1 batches hold exactly
\* N-1 inter-batch links (batch i signals what batch i+1 waits on); the only
\* other semaphores are the swapchain's wait on the first batch and the
\* swapchain's signal on the last; no batch signals a semaphore that nothing
\* waits on.
C13_SemaphoreLinks ==
    LET N == Len(submitInfos) IN
    (subPc = "queue" /\ N >= 1) =>
        /\ \A i \in 1..(N - 1) :
              /\ submitInfos[i].signalSemaphores # <<>>
              /\ Range(submitInfos[i].signalSemaphores) = Range(submitInfos[i + 1].waitSemaphores)
        /\ Range(submitInfos[1].waitSemaphores) \subseteq {InFlightSemaphore}
        /\ Range(submitInfos[N].signalSemaphores) \subseteq {RenderFinishedSemaphore}

\* The destructor has destroyed the fence.
FenceDestroyed == m_WaitFence \in {"destroyed", "destroyedPending"}

\* C25: when the submitter is destroyed, an outstanding submission is waited
\* on (the fence waited and reset) before the fence is destroyed: the fence is
\* never destroyed while a queue submission still refers to it, and never
\* while the outstanding flag is still set.
C25_WaitedBeforeFenceDestroyed ==
    FenceDestroyed =>
        /\ ~m_bIsWaiting
        /\ m_WaitFence = "destroyed"
        /\ lastCall.outstanding =>
              lastCall.fenceOps = <<"vkWaitForFences", "vkResetFences", "vkDestroyFence">>

\* C25, the regular case: the destructor found a submission outstanding,
\* waited, reset the fence and destroyed it.
C25_Witness ==
    /\ FenceDestroyed
    /\ lastCall.fenceOps = <<"vkWaitForFences", "vkResetFences", "vkDestroyFence">>

-----------------------------------------------------------------------------
(* Claims about threads sharing the graphics queue.                        *)

\* The threads whose submit() is building descriptors / is inside vkQueueSubmit.
Building == {t \in SubmitThreads : submitThreads[t].pc = "building"}
Submitting == {t \in SubmitThreads : submitThreads[t].pc = "vkQueueSubmit"}

\* C11, as stated: a submit() call builds its descriptors and submits them
\* inside the queue's access guard, so neither step overlaps the descriptor
\* construction or the queue submission of another call on the same queue.
C11_BuildAndSubmitInsideGuard ==
    \A t \in Building \cup Submitting : queueGuard = t

\* C11, amended: only the queue submission is performed inside the queue's
\* access guard, so the queue submissions of two calls never overlap; the
\* descriptors are built before the guard is taken, into vectors local to
\* the call.
C11_QueueSubmitInsideGuard ==
    /\ \A t \in Submitting : queueGuard = t
    /\ Cardinality(Submitting) <= 1
    /\ \A t \in Building : queueGuard # t

\* One thread is inside vkQueueSubmit while the other has built descriptors
\* and waits for the guard.
C11_Witness ==
    \E t, u \in SubmitThreads :
        /\ t # u
        /\ submitThreads[t].pc = "vkQueueSubmit"
        /\ submitThreads[u].pc = "built"
        /\ Len(submitThreads[u].submitInfos) > 0
        /\ queueSubmits > 0

-----------------------------------------------------------------------------
(* Claims about DX12Buffer.                                                *)

\* The view a beginRead() returned holds data at offset.
ViewHolds(view, data, offset) ==
    \A k \in 1..Len(data) :
        /\ (offset + k - 1) \in DOMAIN view
        /\ view[offset + k - 1] = data[k]

\* C5: write(data, N, O) without a command recorder followed by beginRead()
\* yields a view whose bytes [O, O+N) equal data, on the direct path and on
\* the staging path.
C5_WriteReadRoundTrip ==
    bufLastOps = <<"write", "beginRead">> =>
        ViewHolds(readView, lastWrite.data, lastWrite.offset)

\* The stream of one performCopy: every barrier before the copy command that
\* moves a buffer from its tracked state into a copy state has, after the copy
\* command, a barrier moving the same buffer back to exactly that state.
StreamPaired(stream, bufs) ==
    \A c \in 1..Len(stream) :
        stream[c].kind = "copy" =>
            \A i \in 1..(c - 1) :
                ( /\ stream[i].kind = "barrier"
                  /\ stream[i].after \in {"COPY_DEST", "COPY_SOURCE"}
                  /\ stream[i].before = bufs[stream[i].resource].m_CurrentState )
                => \E j \in (c + 1)..Len(stream) :
                      stream[j] = Transition(stream[i].resource, stream[i].after,
                                             stream[i].before)

\* C8: in every copy DX12Buffer records (copy, write via staging, beginRead)
\* the transitions are paired around the copy command, and the tracked state
\* of every buffer is the same after the operation as before it.
C8_TransitionsPaired ==
    [][ /\ StreamPaired(lastStream', buffers')
        /\ \A n \in DOMAIN buffers :
              buffers'[n].m_CurrentState = buffers[n].m_CurrentState ]_vars

\* C8 witness: an operation recorded a copy with both buffers moved into a
\* copy state and back (four barriers around the copy command).
C8_Witness ==
    /\ Len(lastStream) = 5
    /\ lastStream[3].kind = "copy"
    /\ bufLastOps[2] \in {"copy", "write", "writeRecorded", "beginRead"}

\* C9: copy() without a command recorder returns only after its command list
\* has completed on the device: no list submitted by copy() is still on the
\* queue when a call has returned.
C9_CopySynchronous ==
    \A i \in 1..Len(gpuQueue) : gpuQueue[i].origin # "copy"


\* The step is a write() on buffer "A".
WriteStep == bufOps' # bufOps /\ bufLastOps'[2] \in {"write", "writeRecorded"}

\* C24: write() takes the direct path exactly when the buffer is on the
\* upload heap and in the generic-read state, and the staged path otherwise.
\* The staging buffer is created by the first staged write only, with the
\* size of the buffer, and every later staged write reuses it (what earlier
\* writes left in it is still there); a direct write never creates it.
C24_WritePathAndStaging ==
    [][WriteStep =>
         LET A == buffers["A"]
             direct == A.m_HeapType = "UPLOAD" /\ A.m_CurrentState = "GENERIC_READ"
             written == {lastWrite'.offset + k : k \in 0..(Len(lastWrite'.data) - 1)}
         IN /\ lastWrite'.staged = ~direct
            /\ direct =>
                  /\ DOMAIN buffers' = DOMAIN buffers
                  /\ A.m_pTemporaryWriteBuffer = "null"
                  /\ buffers'["A"].m_pTemporaryWriteBuffer = "null"
                  /\ \A o \in written :
                        buffers'["A"].mem[o] = lastWrite'.data[o - lastWrite'.offset + 1]
            /\ ~direct =>
                  /\ buffers'["A"].m_pTemporaryWriteBuffer = "A.write"
                  /\ DOMAIN buffers' = DOMAIN buffers \cup {"A.write"}
                  /\ buffers'["A.write"].m_Size = A.m_Size
                  /\ buffers'["A.write"].m_HeapType = "UPLOAD"
                  /\ (A.m_pTemporaryWriteBuffer = "null") <=> ("A.write" \notin DOMAIN buffers)
                  /\ A.m_pTemporaryWriteBuffer # "null" =>
                        \A o \in DOMAIN buffers["A.write"].mem \ written :
                            /\ o \in DOMAIN buffers'["A.write"].mem
                            /\ buffers'["A.write"].mem[o] = buffers["A.write"].mem[o]]_vars

\* A second staged write at another offset: the staging buffer holds the
\* bytes of both writes.
C24_Witness ==
    /\ "A.write" \in DOMAIN buffers
    /\ lastWrite.staged
    /\ bufLastOps[1] \in {"write", "writeRecorded"}
    /\ bufLastOps[2] \in {"write", "writeRecorded"}
    /\ Cardinality(DOMAIN buffers["A.write"].mem) = 2

\* Every transition barrier of the stream names, as its before-state, the
\* state its resource is in at that point of the stream, and moves it to
\* another state. states gives the state of every resource where the stream
\* starts.
RECURSIVE BarriersMatch(_, _)
BarriersMatch(stream, states) ==
    IF stream = <<>> THEN TRUE
    ELSE LET cmd == Head(stream)
         IN IF cmd.kind = "barrier"
            THEN /\ cmd.before = states[cmd.resource]
                 /\ cmd.after # cmd.before
                 /\ BarriersMatch(Tail(stream), [states EXCEPT ![cmd.resource] = cmd.after])
            ELSE BarriersMatch(Tail(stream), states)

\* C27: in the command stream of every copy, write and beginRead, for every
\* pair of source and destination (a buffer copied onto itself included), each
\* transition barrier's before-state is the state the resource is in at that
\* point of the stream, and its after-state differs from it. Every resource
\* is created in its tracked state and every stream ends with each resource
\* moved back to it, so a stream starts with each resource in m_CurrentState.
C27_BarrierStatesMatch ==
    BarriersMatch(lastStream, [n \in DOMAIN buffers |-> buffers[n].m_CurrentState])

\* C27, the regular case: a copy between two different default-heap buffers,
\* four barriers, each naming the state its resource is in.
C27_Witness ==
    /\ bufLastOps[2] = "copy"
    /\ Len(lastStream) = 5
    /\ lastStream[3].kind = "copy" /\ lastStream[3].src # lastStream[3].dst
    /\ C27_BarrierStatesMatch

-----------------------------------------------------------------------------
(* Claims about DefaultCacheHandler.                                       *)

-----------------------------------------------------------------------------
(* Claims about the descriptor merge.                                      *)

\* The stages of the pipeline that were processed, with their flags.
ProcessedStages ==
    (IF m_Specification.m_VertexShader.isValid
     THEN {[shader |-> m_Specification.m_VertexShader, type |-> ShaderTypeVertex]} ELSE {})
    \cup
    (IF m_Specification.m_FragmentShader.isValid
     THEN {[shader |-> m_Specification.m_FragmentShader, type |-> ShaderTypeFragment]} ELSE {})

\* The stages that declare a resource at (set, binding).
Declaring(set, binding) ==
    {st \in ProcessedStages :
        \E r \in Range(st.shader.m_Resources) : r.m_Set = set /\ r.m_Binding = binding}

\* The sum of the flags of a set of stages; the flags are distinct bits, so
\* the sum is their bitwise OR.
StageMask(stages) ==
    (IF \E st \in stages : st.type = ShaderTypeVertex THEN ShaderTypeVertex ELSE 0)
    + (IF \E st \in stages : st.type = ShaderTypeFragment THEN ShaderTypeFragment ELSE 0)

\* C7: after the constructor has run GetShaderBindings over the valid stages,
\* the binding map has an entry at (set, binding) exactly when some stage
\* declares a resource there, and the entry's mask is the bitwise OR of the
\* flags of the stages that declare it.
C7_DescriptorMerge ==
    constructed =>
        \A set \in DescriptorTypes, binding \in {r.m_Binding : r \in ShaderResources} :
            /\ (set \in DOMAIN m_BindingMap /\ binding \in DOMAIN m_BindingMap[set])
                   <=> Declaring(set, binding) # {}
            /\ Declaring(set, binding) # {} =>
                   m_BindingMap[set][binding].m_ApplicableShaders
                       = StageMask(Declaring(set, binding))

\* C7 witness: both stages declare (Scene, 0), the vertex stage twice, and the
\* one entry carries both flags.
C7_Witness ==
    /\ constructed
    /\ Cardinality(Declaring("Scene", 0)) = 2
    /\ \E i, j \in 1..Len(m_Specification.m_VertexShader.m_Resources) :
          /\ i # j
          /\ m_Specification.m_VertexShader.m_Resources[i].m_Set = "Scene"
          /\ m_Specification.m_VertexShader.m_Resources[j].m_Set = "Scene"
          /\ m_Specification.m_VertexShader.m_Resources[i].m_Binding = 0
          /\ m_Specification.m_VertexShader.m_Resources[j].m_Binding = 0
    /\ m_BindingMap["Scene"][0].m_ApplicableShaders = ShaderTypeVertex + ShaderTypeFragment
    /\ m_BindingMap["Material"] = <<>>


\* The inputs the vertex stage declares, if the constructor processed one.
VertexStageInputs ==
    IF m_Specification.m_VertexShader.isValid
    THEN m_Specification.m_VertexShader.m_InputAttributes ELSE <<>>

\* C22: GetShaderBindings derives attribute descriptions for the vertex stage
\* only, one per declared input, with binding 0 for a per-vertex element and
\* binding 1 for every other location; it emits the instance binding
\* (binding 1, instance rate, stride = size of InstanceEntry) if and only if
\* some derived attribute has binding 1.
C22_VertexStageAttributes ==
    constructed =>
        /\ Len(m_VertexInputAttributes) = Len(VertexStageInputs)
        /\ \A i \in DOMAIN m_VertexInputAttributes :
              /\ m_VertexInputAttributes[i].location = VertexStageInputs[i].m_Location
              /\ m_VertexInputAttributes[i].binding =
                    (IF VertexStageInputs[i].m_Location \in VertexElements THEN 0 ELSE 1)
        /\ m_VertexInputBindings =
              (IF \E i \in DOMAIN m_VertexInputAttributes : m_VertexInputAttributes[i].binding = 1
               THEN <<[binding |-> 1, inputRate |-> "VK_VERTEX_INPUT_RATE_INSTANCE",
                       stride |-> InstanceEntrySize]>>
               ELSE <<>>)

\* Both stages declare inputs; the vertex stage has an instance input.
C22_Witness ==
    /\ constructed
    /\ m_Specification.m_FragmentShader.isValid
    /\ m_Specification.m_FragmentShader.m_InputAttributes # <<>>
    /\ Len(m_VertexInputAttributes) = 3
    /\ m_VertexInputBindings # <<>>

-----------------------------------------------------------------------------
(* Claims about the pipeline variants.                                     *)

\* The backend pipeline objects the variants of the map hold.
VariantPipelines == {m_Pipelines[h].m_Pipeline : h \in DOMAIN m_Pipelines}

\* Thread t is between two calls, its last one a getPipeline for a hash the
\* map already held.
Rerequested(t) ==
    /\ threads[t].pc = "idle"
    /\ threads[t].op = "getPipeline"
    /\ Current(t) \in DOMAIN threads[t].before

\* C1: between calls, the variant map holds one variant per hash requested so
\* far, each with a live backend pipeline object of its own and no other
\* pipeline object is alive; a getPipeline for a hash the map already held
\* returned the stored variant, left the map as it was, and made no cache
\* load, no backend creation and no cache store.
C1_OneVariantPerHash ==
    (threads["t1"].pc = "idle" /\ ~pipeAborted) =>
        /\ DOMAIN m_Pipelines = requested
        /\ VK_NULL_HANDLE \notin VariantPipelines
        /\ VariantPipelines = device.pipelines
        /\ Cardinality(VariantPipelines) = Cardinality(DOMAIN m_Pipelines)
        /\ Rerequested("t1") =>
               /\ callLog["t1"] = <<>>
               /\ m_Pipelines = threads["t1"].before
               /\ lastReturn["t1"] = threads["t1"].before[Current("t1")]

\* C1 witness: a third getPipeline asked for a hash compiled earlier while the
\* map holds two variants.
C1_Witness ==
    /\ ~pipeAborted
    /\ Rerequested("t1")
    /\ Cardinality(DOMAIN m_Pipelines) = 2
    /\ callLog["t1"] = <<>>
    /\ lastReturn["t1"].m_Pipeline \in device.pipelines

\* The positions of a call at which the thread reads or writes the variant
\* map or one of its variants.
MapAccess == {"contains", "load", "create", "creating", "save", "return", "iterate"}

\* C10: a thread that accesses the variant map holds the mutex of the pipeline
\* object, and at most one thread is inside the creation of a backend pipeline
\* object.
C10_VariantMapSerialized ==
    /\ \A t \in Threads : threads[t].pc \in MapAccess => m_Mutex = t
    /\ Cardinality({t \in Threads : threads[t].pc = "creating"}) <= 1

\* The positions in the call log of thread t that hold the named event.
Events(t, name) == {i \in DOMAIN callLog[t] : callLog[t][i].event = name}

\* Thread t's last call was a recreate() that has returned.
RecreateDone(t) ==
    threads[t].op = "recreate" /\ threads[t].pc = "idle" /\ ~pipeAborted

\* C14: recreate() rebuilds every variant that exists when it is called
\* exactly once, creating the backend pipeline and then storing its cache
\* blob, and leaves the set of hashes of the map as it was.
C14_RecreateRebuildsEachOnce ==
    RecreateDone("t1") =>
        LET before == threads["t1"].before
            log == callLog["t1"]
            created == Events("t1", "vkCreateGraphicsPipelines")
        IN /\ DOMAIN m_Pipelines = DOMAIN before
           /\ Cardinality(created) = Cardinality(DOMAIN before)
           /\ \A hash \in DOMAIN before :
                 /\ \E i \in created :
                       /\ log[i].pipelineCache = before[hash].m_PipelineCache
                       /\ \A j \in created :
                             log[j].pipelineCache = log[i].pipelineCache => j = i
                       /\ m_pCacheHandler # "null" =>
                             /\ i + 1 \in Events("t1", "store")
                             /\ log[i + 1].key = CacheKey(hash)
                             /\ \A j \in Events("t1", "store") :
                                   log[j].key = CacheKey(hash) => j = i + 1
                 /\ m_Pipelines[hash].m_Pipeline \in device.pipelines
                 /\ m_Pipelines[hash].m_Pipeline # before[hash].m_Pipeline
                 /\ before[hash].m_Pipeline \in device.destroyed

\* recreate() has returned on a pipeline with a cache handler and two variants.
C14_Witness ==
    /\ RecreateDone("t1")
    /\ m_pCacheHandler # "null"
    /\ Cardinality(DOMAIN m_Pipelines) = 2
    /\ Cardinality(Events("t1", "store")) = 2

\* C15: loading a variant's cache attempts vkCreatePipelineCache at most
\* twice; the second attempt is made only after the first one reported
\* VK_ERROR_UNKNOWN and passes empty initial data; any other failure of the
\* first attempt and any failure of the second one is fatal and not retried.
C15_CacheCreateRetry ==
    LET log == callLog["t1"]
        attempts == Events("t1", "vkCreatePipelineCache")
        IsFirst(i) == \A j \in attempts : j >= i
        Retried(i) == \E j \in attempts : j > i
    IN /\ Cardinality(attempts) <= 2
       /\ \A i \in attempts :
             /\ Retried(i) <=> (IsFirst(i) /\ log[i].result = "VK_ERROR_UNKNOWN")
             /\ ~IsFirst(i) => log[i].initialData = <<>>
             /\ (~Retried(i) /\ log[i].result # "VK_SUCCESS") =>
                    (pipeAborted /\ i = Len(log))
             /\ (~Retried(i) /\ log[i].result = "VK_SUCCESS") =>
                    m_Pipelines[Current("t1")].m_PipelineCache \in device.caches

\* The first attempt was made with a blob of an earlier run and reported the
\* unknown error; the retry was made and failed.
C15_Witness ==
    LET log == callLog["t1"]
        attempts == Events("t1", "vkCreatePipelineCache")
    IN /\ Cardinality(attempts) = 2
       /\ \E i \in attempts : log[i].initialData # <<>> /\ log[i].result = "VK_ERROR_UNKNOWN"
       /\ pipeAborted
       /\ Len(log) \in attempts
       /\ log[Len(log)].result = "VK_ERROR_OUT_OF_HOST_MEMORY"

\* Thread t's last call was a getPipeline() that has returned.
GetPipelineDone(t) ==
    threads[t].op = "getPipeline" /\ threads[t].pc = "idle" /\ ~pipeAborted

\* The variant is compiled: it holds a live cache object and a live pipeline
\* object of its own.
Compiled(variant) ==
    /\ variant.m_PipelineCache \in device.caches
    /\ variant.m_Pipeline \in device.pipelines

\* C16: a null cache handler is not fatal. getPipeline and recreate leave
\* compiled variants, with the inputs the vertex layout gives, whether or not
\* a handler is set; with a null handler every vkCreatePipelineCache gets
\* empty initial data and no load or store is attempted, so the cache files
\* stay as they were.
C16_NullHandlerNotFatal ==
    /\ GetPipelineDone("t1") =>
          LET inputs == SetupInputs(threads["t1"].vertexSpecification,
                                    m_VertexInputBindings, m_VertexInputAttributes)
          IN /\ Compiled(lastReturn["t1"])
             /\ lastReturn["t1"].m_InputBindingDescriptions = inputs.m_InputBindingDescriptions
             /\ lastReturn["t1"].m_InputAttributeDescriptions
                   \in SortedByOffset(inputs.m_InputAttributeDescriptions)
    /\ RecreateDone("t1") => \A hash \in DOMAIN m_Pipelines : Compiled(m_Pipelines[hash])
    /\ m_pCacheHandler = "null" =>
          /\ Events("t1", "load") = {}
          /\ Events("t1", "store") = {}
          /\ \A i \in Events("t1", "vkCreatePipelineCache") :
                callLog["t1"][i].initialData = <<>>
          /\ lastLoad = NoLoad
          /\ stored \in EarlierStores
          /\ files = StoreAll(<<>>, stored)

\* Without a handler, and with blobs of an earlier run on disk, a variant was
\* compiled by getPipeline and rebuilt by recreate.
C16_Witness ==
    /\ m_pCacheHandler = "null"
    /\ RecreateDone("t1")
    /\ \E hash \in DOMAIN m_Pipelines :
          /\ CacheKey(hash) \in DOMAIN stored
          /\ Compiled(m_Pipelines[hash])
    /\ Events("t1", "vkCreateGraphicsPipelines") # {}

\* The vertex shader declares Position as its only input, and the layout of
\* the last getPipeline holds only Position, a 3-component float at offset 0.
PositionOnly(t) ==
    /\ m_Specification.m_VertexShader.m_InputAttributes = <<[m_Location |-> "VertexPosition"]>>
    /\ threads[t].vertexSpecification =
          [m_Elements |-> [VertexPosition |->
                              [m_Offset |-> 0, m_AttributeDataType |-> "Vec3",
                               m_ComponentDataType |-> "Float"]],
           m_Size |-> 12, m_Hash |-> U64(0, 0, 0, 1)]

\* C17: for a vertex shader whose only input is Position and a layout with
\* only Position as a 3-component float at offset 0, the variant has exactly
\* one attribute (binding 0, offset 0, three 32-bit floats) and exactly one
\* binding, per vertex with a stride of 12 bytes; no instance-rate binding.
C17_PositionOnlyVariant ==
    (GetPipelineDone("t1") /\ PositionOnly("t1")) =>
        /\ lastReturn["t1"].m_InputAttributeDescriptions =
              <<[binding |-> 0, location |-> "VertexPosition",
                 format |-> [components |-> 3, bits |-> 32, numeric |-> "SFLOAT"],
                 offset |-> 0]>>
        /\ lastReturn["t1"].m_InputBindingDescriptions =
              <<[binding |-> 0, inputRate |-> "VK_VERTEX_INPUT_RATE_VERTEX", stride |-> 12]>>

\* getPipeline returned the compiled variant of the Position-only case.
C17_Witness ==
    /\ GetPipelineDone("t1")
    /\ PositionOnly("t1")
    /\ ~threads["t1"].found
    /\ Compiled(lastReturn["t1"])

\* h XOR C, with C the constant of the rasterizing pipeline, word by word.
XorC(h) == [i \in 1..4 |-> BitXor(h[i], g_MagicNumber[i])]

\* The hashes the key mapping is examined on.
KeyHashes == CacheHashes \cup {generateHash(v) : v \in VertexSpecifications}

\* The blob the handler holds for a key.
BlobOf(key) == IF key \in DOMAIN stored THEN stored[key] ELSE <<>>

\* C18: the pipeline loads and stores the cache blob of the variant of hash h
\* under the key h XOR C. The mapping is injective and (h XOR C) XOR C = h, so
\* the blob loaded for h is the blob last stored for h, never that of another
\* hash.
C18_CacheKeyXor ==
    /\ [][\A first, second \in VkResults :
            (LoadPipelineCache("t1", first, second) /\ m_pCacheHandler # "null") =>
                LET key == XorC(Current("t1"))
                IN /\ XorC(key) = Current("t1")
                   /\ \A h \in KeyHashes : XorC(h) = key => h = Current("t1")
                   /\ lastLoad'.hash = key
                   /\ lastLoad'.bytes = BlobOf(key)
                   /\ \A h \in DOMAIN stored :
                         (h # key /\ stored[h] # BlobOf(key)) => lastLoad'.bytes # stored[h]]_vars
    /\ [][\A cacheData \in CacheData :
            (SavePipelineCache("t1", cacheData) /\ m_pCacheHandler # "null") =>
                LET key == XorC(Current("t1"))
                IN /\ DOMAIN stored' = DOMAIN stored \cup {key}
                   /\ stored'[key] = cacheData
                   /\ DefaultLoad(files', key) = cacheData
                   /\ \A h \in DOMAIN stored : h # key => stored'[h] = stored[h]]_vars

\* A blob left by an earlier run under the key of the requested hash was
\* loaded, while another key holds a different blob, and the variant's new
\* blob was stored afterwards.
C18_Witness ==
    /\ GetPipelineDone("t1")
    /\ lastLoad.called
    /\ lastLoad.bytes # <<>>
    /\ lastLoad.hash = XorC(Current("t1"))
    /\ Events("t1", "store") # {}
    /\ \E h \in DOMAIN stored : h # lastLoad.hash /\ stored[h] # lastLoad.bytes

\* Thread t is inside, or has returned from, a getPipeline() for a hash that
\* was not in the map.
FirstRequest(t) == threads[t].op = "getPipeline" /\ ~threads[t].found

\* C19: the first request for an unseen hash takes the variant through the
\* cache load, then the compile (inputs resolved, sorted and bound, backend
\* pipeline created), then the cache store, in that order and each once,
\* before getPipeline returns it; a blob is never stored before the backend
\* pipeline was created.
C19_LoadCompileStoreOrder ==
    LET log == callLog["t1"]
        loads == Events("t1", "load")
        cacheCreates == Events("t1", "vkCreatePipelineCache")
        creates == Events("t1", "vkCreateGraphicsPipelines")
        stores == Events("t1", "store")
        inputs == SetupInputs(threads["t1"].vertexSpecification,
                              m_VertexInputBindings, m_VertexInputAttributes)
    IN /\ FirstRequest("t1") =>
             /\ \A i \in stores : \E j \in creates : j < i /\ log[j].result = "VK_SUCCESS"
             /\ \A i \in creates :
                   /\ \E j \in cacheCreates : j < i /\ log[j].result = "VK_SUCCESS"
                   /\ m_Pipelines[Current("t1")].m_InputAttributeDescriptions
                         \in SortedByOffset(inputs.m_InputAttributeDescriptions)
                   /\ m_Pipelines[Current("t1")].m_InputBindingDescriptions
                         = inputs.m_InputBindingDescriptions
             /\ \A i \in cacheCreates : \A j \in loads : j < i
       /\ (FirstRequest("t1") /\ GetPipelineDone("t1")) =>
             /\ Cardinality(creates) = 1
             /\ cacheCreates # {}
             /\ Events("t1", "vkDestroyPipeline") = {}
             /\ m_pCacheHandler # "null" =>
                   /\ Cardinality(loads) = 1 /\ Cardinality(stores) = 1
                   /\ loads = {1} /\ stores = {Len(log)}
             /\ lastReturn["t1"] = m_Pipelines[Current("t1")]
             /\ Compiled(lastReturn["t1"])

\* getPipeline returned a new variant after a cache load that needed the
\* retry, one compile and one store.
C19_Witness ==
    /\ FirstRequest("t1")
    /\ GetPipelineDone("t1")
    /\ m_pCacheHandler # "null"
    /\ Cardinality(Events("t1", "vkCreatePipelineCache")) = 2
    /\ Len(lastReturn["t1"].m_InputAttributeDescriptions) = 3
    /\ Events("t1", "store") = {5}

\* The attribute took its offset and format from the vertex layout.
Populated(attribute, vertexSpecification) ==
    /\ attribute.binding # 1
    /\ attribute.location \in DOMAIN vertexSpecification.m_Elements
    /\ LET element == vertexSpecification.m_Elements[attribute.location]
       IN /\ attribute.offset = element.m_Offset
          /\ attribute.format =
                GetElementFormat(GetAttributeDataTypeComponentCount(element.m_AttributeDataType),
                                 element.m_ComponentDataType)

\* C20: the variant gets the per-vertex binding (binding 0, vertex rate,
\* stride = size of the requested layout) if and only if at least one
\* non-instance attribute of the shader is available in the layout and took
\* its offset and format from it; the instance attributes (binding 1) keep
\* the offset and format the constructor gave them.
C20_VertexBindingIffPopulated ==
    GetPipelineDone("t1") =>
        LET variant == lastReturn["t1"]
            layout == threads["t1"].vertexSpecification
            attributes == Range(variant.m_InputAttributeDescriptions)
            vertexBindings == {i \in DOMAIN variant.m_InputBindingDescriptions :
                                  variant.m_InputBindingDescriptions[i].binding = 0}
        IN /\ (vertexBindings # {}) <=>
                  (\E a \in Range(m_VertexInputAttributes) :
                      a.binding # 1 /\ a.location \in DOMAIN layout.m_Elements)
           /\ (vertexBindings # {}) <=> (\E a \in attributes : Populated(a, layout))
           /\ Cardinality(vertexBindings) <= 1
           /\ \A i \in vertexBindings :
                 variant.m_InputBindingDescriptions[i] =
                     [binding |-> 0, inputRate |-> "VK_VERTEX_INPUT_RATE_VERTEX",
                      stride |-> layout.m_Size]
           /\ {a \in attributes : a.binding = 1}
                 = {a \in Range(m_VertexInputAttributes) : a.binding = 1}
           /\ \A a \in attributes : a.binding = 1 =>
                 /\ a.offset = InstanceEntryOffset[a.location]
                 /\ a.format \in {VK_FORMAT_R32_UINT, VK_FORMAT_R32G32B32_SFLOAT}

\* A variant of a shader with an instance input and two vertex inputs was
\* compiled for a layout that holds both vertex elements.
C20_Witness ==
    /\ GetPipelineDone("t1")
    /\ Cardinality(DOMAIN threads["t1"].vertexSpecification.m_Elements) = 2
    /\ Len(lastReturn["t1"].m_InputAttributeDescriptions) = 3
    /\ Len(lastReturn["t1"].m_InputBindingDescriptions) = 2
    /\ \E i \in 1..2 : lastReturn["t1"].m_InputBindingDescriptions[i].stride = 68

\* The component data types GetElementFormat has a case for.
RecognisedDataTypes ==
    {"Uint8", "Uint16", "Uint32", "Uint64", "Int8", "Int16", "Int32", "Int64", "Float"}

\* The component counts and data types GetElementFormat is examined on.
ExaminedCounts == {0, 1, 2, 3, 4, 5, 16, 255}
ExaminedDataTypes == RecognisedDataTypes \cup {"Void"}

\* The layout of thread t's call gives some attribute of the shader the
\* undefined format.
SentinelInLayout(t) ==
    LET layout == threads[t].vertexSpecification
    IN \E a \in Range(m_VertexInputAttributes) :
          /\ a.binding # 1
          /\ a.location \in DOMAIN layout.m_Elements
          /\ GetAttributeDataTypeComponentCount(
                 layout.m_Elements[a.location].m_AttributeDataType) \notin 1..4

\* C23: GetElementFormat returns VK_FORMAT_UNDEFINED exactly when the
\* component count is outside 1..4 or the data type is none of the nine it
\* knows, and a defined format otherwise; a getPipeline whose compile got the
\* undefined format goes on: it dies only of a failed backend call, and when
\* it returns the variant is built, stored and returned.
C23_UndefinedFormatSentinel ==
    /\ \A count \in ExaminedCounts, dataType \in ExaminedDataTypes :
          (GetElementFormat(count, dataType) = [components |-> 0, bits |-> 0,
                                                numeric |-> "UNDEFINED"])
              <=> (count \notin 1..4 \/ dataType \notin RecognisedDataTypes)
    /\ (FirstRequest("t1") /\ SentinelInLayout("t1")) =>
          /\ pipeAborted =>
                /\ callLog["t1"] # <<>>
                /\ Last(callLog["t1"]).event \in {"vkCreatePipelineCache",
                                                  "vkCreateGraphicsPipelines"}
                /\ Last(callLog["t1"]).result # "VK_SUCCESS"
          /\ GetPipelineDone("t1") =>
                /\ Compiled(lastReturn["t1"])
                /\ lastReturn["t1"] = m_Pipelines[Current("t1")]
                /\ \E a \in Range(lastReturn["t1"].m_InputAttributeDescriptions) :
                      a.binding = 0 /\ a.format.numeric = "UNDEFINED"
                         /\ a.location \in DOMAIN threads["t1"].vertexSpecification.m_Elements
                /\ m_pCacheHandler # "null" => Events("t1", "store") # {}

\* getPipeline returned a stored variant in which the layout's 16-component
\* element has the undefined format.
C23_Witness ==
    /\ FirstRequest("t1")
    /\ SentinelInLayout("t1")
    /\ GetPipelineDone("t1")
    /\ m_pCacheHandler # "null"
    /\ Events("t1", "store") # {}
    /\ \E a \in Range(lastReturn["t1"].m_InputAttributeDescriptions) :
          a.location = "VertexNormal" /\ a.format.numeric = "UNDEFINED"

\* The bindings the attribute descriptions of a variant refer to, and the
\* bindings the variant describes.
BindingsUsed(variant) == {a.binding : a \in Range(variant.m_InputAttributeDescriptions)}
BindingsDescribed(variant) == {b.binding : b \in Range(variant.m_InputBindingDescriptions)}

\* C26: in every variant getPipeline returns, each attribute description
\* refers to a binding that the same variant describes.
C26_AttributeBindingsDescribed ==
    GetPipelineDone("t1") =>
        BindingsUsed(lastReturn["t1"]) \subseteq BindingsDescribed(lastReturn["t1"])

\* C26, the regular case: a variant with a per-vertex and a per-instance
\* attribute, both bindings described.
C26_Witness ==
    /\ GetPipelineDone("t1")
    /\ BindingsUsed(lastReturn["t1"]) = {0, 1}
    /\ BindingsDescribed(lastReturn["t1"]) = {0, 1}

\* The backend handles the variants of the map hold.
OwnedPipelines == {m_Pipelines[hash].m_Pipeline : hash \in DOMAIN m_Pipelines}
OwnedCaches == {m_Pipelines[hash].m_PipelineCache : hash \in DOMAIN m_Pipelines}

\* C28: after any sequence of getPipeline and recreate calls every variant
\* owns exactly one live pipeline handle and one cache object, no two variants
\* share one and the device holds no other; recreate destroys the previous
\* handle of a variant right before it creates the new one, keeps the cache
\* object of every variant and loads nothing.
C28_OneLiveHandlePerVariant ==
    (threads["t1"].pc = "idle" /\ ~pipeAborted) =>
        /\ VK_NULL_HANDLE \notin OwnedPipelines \cup OwnedCaches
        /\ device.pipelines = OwnedPipelines
        /\ device.caches = OwnedCaches
        /\ Cardinality(OwnedPipelines) = Cardinality(DOMAIN m_Pipelines)
        /\ Cardinality(OwnedCaches) = Cardinality(DOMAIN m_Pipelines)
        /\ device.destroyed \cap device.pipelines = {}
        /\ RecreateDone("t1") =>
              LET before == threads["t1"].before
                  log == callLog["t1"]
                  destroys == Events("t1", "vkDestroyPipeline")
              IN /\ {log[i].handle : i \in destroys} =
                        {before[hash].m_Pipeline : hash \in DOMAIN before}
                 /\ \A i \in destroys :
                       /\ i + 1 \in Events("t1", "vkCreateGraphicsPipelines")
                       /\ \E hash \in DOMAIN before :
                             /\ log[i].handle = before[hash].m_Pipeline
                             /\ log[i + 1].pipelineCache = before[hash].m_PipelineCache
                 /\ \A i \in Events("t1", "vkCreateGraphicsPipelines") : i - 1 \in destroys
                 /\ Events("t1", "load") \cup Events("t1", "vkCreatePipelineCache") = {}
                 /\ \A hash \in DOMAIN before :
                       m_Pipelines[hash].m_PipelineCache = before[hash].m_PipelineCache

\* Two variants were compiled and recreate() has rebuilt both.
C28_Witness ==
    /\ RecreateDone("t1")
    /\ Cardinality(DOMAIN m_Pipelines) = 2
    /\ Cardinality(device.destroyed) = 2
    /\ Cardinality(Events("t1", "vkDestroyPipeline")) = 2

-----------------------------------------------------------------------------
(* Claims about the compile of a variant.                                  *)

-----------------------------------------------------------------------------
(* Claims about the scene.                                                 *)

\* No call on the scene is running.
SceneQuiet == \A t \in SceneThreads : sceneThreads[t] = "idle"

C29_Witness ==
    /\ SceneQuiet
    /\ m_Registry.materials > 0
    /\ m_UniqueLock /\ sceneMutex = "main"
    /\ ~sceneHistory.insertedUnderSceneLock

\* C30: for any number of light sources in the registry, endUpdate() never
\* writes more bytes to the light-source buffer than the size the buffer was
\* created with, XENON_MAX_LIGHT_SOURCE_COUNT times the size of one light
\* source.
C30_LightWriteWithinBuffer ==
    ~m_pLightSourceUniform.null =>
        m_pLightSourceUniform.written <= m_pLightSourceUniform.size

\* C30, the regular case: endUpdate() wrote exactly as many light sources as
\* the buffer holds.
C30_Witness ==
    /\ ~m_pLightSourceUniform.null
    /\ m_pLightSourceUniform.written = m_pLightSourceUniform.size
    /\ m_SceneInformation.m_LightSourceCount = MaxLightSourceCount

====
